---- MODULE Spec2Model ----
(***************************************************************************)
(* Free-tier LLM dispatch core of operate/models/freellm.py:              *)
(*   APIKeyManager   - credential pool (usage, last use, rate-limit bans) *)
(*   FreeLLMManager  - per-model request windows, model rotation and      *)
(*                     generate_content_with_fallback (Gemini primary,    *)
(*                     OpenRouter fallback).                              *)
(* time.time() is modelled by the integer clock `now` (seconds).          *)
(* time.sleep(d) blocks the whole event loop and is part of the action    *)
(* that calls it; `await` points end an action.                           *)
(***************************************************************************)
EXTENDS Integers, Sequences, FiniteSets, TLC

VARIABLES
    now,                        \* time.time()
    gemini_keys,                \* FreeLLMManager.gemini_keys
    openrouter_keys,            \* FreeLLMManager.openrouter_keys
    model_configs,              \* FreeLLMManager.model_configs
    api_key_manager,            \* the APIKeyManager object (fields as a record)
    current_model_config,       \* position (1-based) of current_model_config in model_configs
    model_request_counts,       \* model name -> list of timestamps
    openrouter_request_counts,  \* model name -> list of timestamps
    inv,                        \* per generate invocation: locals and position
    budget,                     \* generate calls the callers will make
    hist                        \* history of the last operation (observation only)

vars == <<now, gemini_keys, openrouter_keys, model_configs, api_key_manager,
          current_model_config, model_request_counts, openrouter_request_counts,
          inv, budget, hist>>

----------------------------------------------------------------------------
(* Bounds of the model *)

T0 == 100               \* clock value at construction (time.time() is far above 60)
MaxTime == 170          \* no action moves the clock beyond this value
MaxPoolOps == 5         \* APIKeyManager calls and pauses per behaviour of SpecPool
MaxGenerates == 2       \* generate calls per behaviour of Spec
MaxLimiterOps == 5      \* limiter calls and pauses per behaviour of SpecLimiter
PreFill == 14           \* entries a second-tier OpenRouter window may already hold

(* Program constants *)

rate_limit_delay == 60      \* APIKeyManager.rate_limit_delay
min_interval == 1           \* APIKeyManager.min_interval
KeyWait == 2                \* time.sleep(2) in get_next_key
WindowSeconds == 60         \* "current_time - t < 60"
SwitchCooldown == 5         \* cooldown in _switch_model
Backoff == 5                \* asyncio.sleep(5)
ApiErrorBackoff == 3        \* asyncio.sleep(3)
max_total_attempts == 6     \* OpenRouter attempts per generate
MaxKeysPerModel == 2        \* "keys_tried >= 2"
OpenRouterTimeout == 30     \* wait_for(timeout=30.0)
DefaultRpm == 30            \* default of next(...) in _can_make_openrouter_request
INF == -1                   \* float('inf') as the initial min_usage

NoKey == "none"             \* best_key = None

OPENROUTER_MODELS ==
    << [name |-> "deepseek/deepseek-r1-0528:free", rpm |-> 30],
       [name |-> "google/gemini-2.5-pro-exp-03-25", rpm |-> 15],
       [name |-> "qwen/qwen3-235b-a22b:free", rpm |-> 30] >>

Range(s) == {s[i] : i \in 1..Len(s)}

Max(a, b) == IF a >= b THEN a ELSE b

----------------------------------------------------------------------------
(* APIKeyManager *)

\* APIKeyManager.__init__
NewAPIKeyManager(api_keys) ==
    [ api_keys |-> api_keys,
      current_key_index |-> 0,
      key_usage_count |-> [k \in Range(api_keys) |-> 0],
      key_last_used |-> [k \in Range(api_keys) |-> 0],
      key_rate_limited_until |-> [k \in Range(api_keys) |-> 0] ]

\* faulty variant: the rate-limit ban is not looked at
KeyUsableIgnoringBan(akm, key, current_time) ==
    ~(current_time - akm.key_last_used[key] < min_interval)

\* the two `continue` tests shared by get_available_keys and get_next_key
KeyUsable(akm, key, current_time) ==
    /\ ~(current_time < akm.key_rate_limited_until[key])
    /\ ~(current_time - akm.key_last_used[key] < min_interval)

\* faulty variant: the minimum interval between uses is not looked at
GetAvailableKeysIgnoringInterval(akm, current_time) ==
    SelectSeq(akm.api_keys, LAMBDA key : ~(current_time < akm.key_rate_limited_until[key]))

\* APIKeyManager.get_available_keys
GetAvailableKeys(akm, current_time) ==
    SelectSeq(akm.api_keys, LAMBDA key : KeyUsable(akm, key, current_time))

\* list.index: position (0-based) of the first occurrence
RECURSIVE IndexFrom(_, _, _)
IndexFrom(s, x, i) ==
    IF s[i] = x THEN i - 1 ELSE IndexFrom(s, x, i + 1)

IndexOf(s, x) == IndexFrom(s, x, 1)

\* faulty variant: "<=" for "<", the last of the equally used keys wins
UsageBelowOrEqual(usage, min_usage) == min_usage = INF \/ usage <= min_usage

\* "if self.key_usage_count[key] < min_usage" with min_usage starting at inf
UsageBelow(usage, min_usage) == min_usage = INF \/ usage < min_usage

\* the for loop of get_next_key: i runs over range(len(api_keys))
RECURSIVE ScanKeys(_, _, _, _, _)
ScanKeys(akm, current_time, i, best_key, min_usage) ==
    IF i >= Len(akm.api_keys) THEN best_key
    ELSE
        LET key_index == (akm.current_key_index + i) % Len(akm.api_keys)
            key == akm.api_keys[key_index + 1]
        IN  IF ~KeyUsable(akm, key, current_time)
            THEN ScanKeys(akm, current_time, i + 1, best_key, min_usage)
            ELSE IF UsageBelow(akm.key_usage_count[key], min_usage)
            THEN ScanKeys(akm, current_time, i + 1, key, akm.key_usage_count[key])
            ELSE ScanKeys(akm, current_time, i + 1, best_key, min_usage)

BestKey(akm, current_time) == ScanKeys(akm, current_time, 0, NoKey, INF)

\* faulty variant: the last use of the selected key is set back to 0
SelectKeyForgetsLastUse(akm, best_key, current_time) ==
    [ akm EXCEPT
        !.current_key_index = (IndexOf(akm.api_keys, best_key) + 1) % Len(akm.api_keys),
        !.key_last_used[best_key] = 0,
        !.key_usage_count[best_key] = @ + 1 ]

\* the "if best_key:" branch of get_next_key
SelectKey(akm, best_key, current_time) ==
    [ akm EXCEPT
        !.current_key_index = (IndexOf(akm.api_keys, best_key) + 1) % Len(akm.api_keys),
        !.key_last_used[best_key] = current_time,
        !.key_usage_count[best_key] = @ + 1 ]

\* APIKeyManager.get_next_key: returns the key, the manager after the call, the
\* time at which the call returns and the number of time.sleep(2) waits
RECURSIVE GetNextKeyFrom(_, _, _)
\* faulty variant: each wait lasts a whole ban length instead of 2 seconds
GetNextKeyFromLongWait(akm, current_time, waits) ==
    LET best_key == BestKey(akm, current_time)
    IN  IF best_key # NoKey
        THEN [ key |-> best_key, akm |-> SelectKey(akm, best_key, current_time),
               t |-> current_time, waits |-> waits ]
        ELSE GetNextKeyFrom(akm, current_time + rate_limit_delay, waits + 1)

GetNextKeyFrom(akm, current_time, waits) ==
    LET best_key == BestKey(akm, current_time)
    IN  IF best_key # NoKey
        THEN [ key |-> best_key, akm |-> SelectKey(akm, best_key, current_time),
               t |-> current_time, waits |-> waits ]
        ELSE GetNextKeyFrom(akm, current_time + KeyWait, waits + 1)

GetNextKey(akm, current_time) == GetNextKeyFrom(akm, current_time, 0)

\* faulty variant: the key is stamped as used but not banned
MarkRateLimitedNoBan(akm, api_key, current_time) ==
    [ akm EXCEPT !.key_last_used[api_key] = current_time ]

\* faulty variant: the key is banned but its last use is not refreshed
MarkRateLimitedKeepsLastUsed(akm, api_key, current_time) ==
    [ akm EXCEPT !.key_rate_limited_until[api_key] = current_time + rate_limit_delay ]

\* APIKeyManager.mark_rate_limited
MarkRateLimited(akm, api_key, current_time) ==
    [ akm EXCEPT
        !.key_rate_limited_until[api_key] = current_time + rate_limit_delay,
        !.key_last_used[api_key] = current_time ]

----------------------------------------------------------------------------
(* FreeLLMManager: request windows and model rotation.                     *)
(* A "limiter state" st is [cur, mrc, t]: current_model_config (position), *)
(* model_request_counts and the clock, threaded through the helper calls.  *)

\* str.strip on the raw credential strings used here
Strip(raw) ==
    CASE raw = " " -> ""
      [] raw = " A" -> "A"
      [] raw = " B" -> "B"
      [] raw = "K2 " -> "K2"
      [] OTHER -> raw

\* "[key.strip() for key in keys if key.strip()]"
StripKeys(raw_keys) ==
    LET kept == SelectSeq(raw_keys, LAMBDA raw : Strip(raw) # "")
    IN  [i \in 1..Len(kept) |-> Strip(kept[i])]

\* "passed or os.getenv(VAR, "").split(",") if os.getenv(VAR) else []", which
\* Python reads as "(passed or split) if os.getenv(VAR) else []"; env is the
\* list of the comma separated pieces of the variable, << >> when it is
\* unset or empty
KeysFrom(passed, env) ==
    IF env # << >>
    THEN (IF passed # << >> THEN passed ELSE env)
    ELSE << >>

\* FreeLLMManager.__init__: self.gemini_keys and self.openrouter_keys
EffectiveKeys(source) == StripKeys(KeysFrom(source.passed, source.env))

\* FreeLLMManager.__init__: api_key_manager is None without Gemini keys
HasManager(keys) == keys # << >>

\* faulty variant: the "break" of the Gemini loop is never taken
NeverSkipsGemini(keys) == FALSE

\* "if not self.api_key_manager: break  # Skip Gemini if no keys"
SkipsGemini(keys) == ~HasManager(keys)

\* faulty variant: an entry of exactly 60 seconds is kept
PruneInclusive(window, current_time) ==
    SelectSeq(window, LAMBDA t : current_time - t <= WindowSeconds)

\* the list comprehensions "[t for t in ... if current_time - t < 60]"
Prune(window, current_time) ==
    SelectSeq(window, LAMBDA t : current_time - t < WindowSeconds)

\* faulty variant: a window that has reached the limit still counts as free
BelowOrAtLimit(window, rpm_limit) == Len(window) <= rpm_limit

\* faulty variant: the last slot below the limit is never given out
BelowLimitLessOne(window, rpm_limit) == Len(window) < rpm_limit - 1

\* "len(window) < rpm_limit"
BelowLimit(window, rpm_limit) == Len(window) < rpm_limit

\* faulty variant: no cooldown at all
CooldownNone(mrc) == 0

\* "cooldown = 5 if len(self.model_request_counts) > 1 else 0"
Cooldown(mrc) == IF Cardinality(DOMAIN mrc) > 1 THEN SwitchCooldown ELSE 0

\* faulty variant: the rotation stops at the last model of the list
NextModelIndexNoWrap(configs, cur) == IF cur < Len(configs) THEN cur + 1 ELSE cur

\* "(current_model_index + 1) % len(self.model_configs)", positions 1-based
NextModelIndex(configs, cur) == (cur % Len(configs)) + 1

\* FreeLLMManager._switch_model (with its blocking time.sleep(cooldown))
SwitchModel(configs, st) ==
    LET next_model_index == NextModelIndex(configs, st.cur)
        mrc == [st.mrc EXCEPT ![configs[next_model_index].name] = << >>]
    IN  [ cur |-> next_model_index, mrc |-> mrc, t |-> st.t + Cooldown(mrc) ]

\* FreeLLMManager._can_make_request: the answer, the limiter state after the
\* call, and the pruned window, its length and the limit it compared
CanMakeRequest(has_manager, configs, st) ==
    IF ~has_manager
    THEN [ ok |-> FALSE, st |-> st, window |-> << >>, len |-> 0, rpm |-> 0 ]
    ELSE
        LET model_name == configs[st.cur].name
            rpm_limit == configs[st.cur].rpm
            window == Prune(st.mrc[model_name], st.t)
            st1 == [st EXCEPT !.mrc[model_name] = window]
        IN  IF BelowLimit(window, rpm_limit)
            THEN [ ok |-> TRUE, st |-> st1, window |-> window,
                   len |-> Len(window), rpm |-> rpm_limit ]
            ELSE [ ok |-> FALSE, st |-> SwitchModel(configs, st1), window |-> window,
                   len |-> Len(window), rpm |-> rpm_limit ]

\* FreeLLMManager._record_request
RecordRequest(configs, st) ==
    [st EXCEPT !.mrc[configs[st.cur].name] = Append(@, st.t)]

\* "next((model['rpm'] for model in OPENROUTER_MODELS if model['name'] == model_name), 30)"
OpenRouterRpm(model_name) ==
    LET hits == {i \in 1..Len(OPENROUTER_MODELS) : OPENROUTER_MODELS[i].name = model_name}
    IN  IF hits = {} THEN DefaultRpm
        ELSE OPENROUTER_MODELS[CHOOSE i \in hits : \A j \in hits : i <= j].rpm

\* FreeLLMManager._can_make_openrouter_request
CanMakeOpenRouterRequest(orc, model_name, current_time) ==
    LET window == Prune(orc[model_name], current_time)
        rpm_limit == OpenRouterRpm(model_name)
    IN  [ ok |-> BelowLimit(window, rpm_limit),
          orc |-> [orc EXCEPT ![model_name] = window],
          len |-> Len(window), rpm |-> rpm_limit ]

\* FreeLLMManager._record_openrouter_request
RecordOpenRouterRequest(orc, model_name, current_time) ==
    [orc EXCEPT ![model_name] = Append(@, current_time)]

----------------------------------------------------------------------------
(* Error classification by substrings of str(e).lower(); a message is the  *)
(* set of the substrings it contains.                                      *)

Messages ==
    { {"rate limit"}, {"429", "api"}, {"quota", "504"}, {"deadline", "request"},
      {"504"}, {"api"}, {"request"}, {"boom"} }

\* the except clause of the Gemini loop
ClassifyGemini(error_msg) ==
    IF "rate limit" \in error_msg \/ "quota" \in error_msg \/ "429" \in error_msg
    THEN "rate_limit"
    ELSE IF "504" \in error_msg \/ "deadline" \in error_msg
    THEN "timeout"
    ELSE IF "api" \in error_msg \/ "request" \in error_msg
    THEN "api_error"
    ELSE "fatal"

\* the "except Exception" clause of the OpenRouter loop
ClassifyOpenRouter(error_msg) ==
    IF "rate limit" \in error_msg \/ "429" \in error_msg
    THEN "rate_limit"
    ELSE "other"

----------------------------------------------------------------------------
(* The image_path argument of generate_content_with_fallback: "none" is no *)
(* image_path, or an image file (both loaders succeed, the steps are the   *)
(* same); "unreadable" is a path that cannot be opened (both loaders       *)
(* raise); "not_image" is a file that opens but holds no image (only the   *)
(* loader of the Gemini loop raises). msg holds the words of the raised    *)
(* message, which names the path.                                          *)

NoImage == [ kind |-> "none", msg |-> {} ]

ImageInputs ==
    { NoImage }
    \cup { [ kind |-> k, msg |-> m ] : k \in {"unreadable", "not_image"},
                                       m \in { {}, {"429"}, {"api"} } }

\* "PIL.Image.open(image_path)" in the Gemini loop raises
ImageLoadFails(image) == image.kind \in {"unreadable", "not_image"}

\* "open(image_path, "rb")" in the OpenRouter loop raises
FileReadFails(image) == image.kind = "unreadable"

----------------------------------------------------------------------------
(* The OpenRouter loops of generate_content_with_fallback, run up to the   *)
(* next provider call (an await) or to the end of the model loop; a key    *)
(* iteration whose image file cannot be read ends in the except clause     *)
(* without a call.                                                         *)

RECURSIVE ScanModels(_, _, _, _, _, _, _)
RECURSIVE ScanKeys2(_, _, _, _, _, _, _, _, _)

\* faulty variant: a model skipped for lack of capacity uses up an attempt
ScanModelsSkipCounts(keys, image, mi, attempts, orc, current_time, checks) ==
    IF mi > Len(OPENROUTER_MODELS)
    THEN [ kind |-> "end", orc |-> orc, checks |-> checks, attempts |-> attempts ]
    ELSE IF attempts >= max_total_attempts
    THEN [ kind |-> "end", orc |-> orc, checks |-> checks, attempts |-> attempts ]
    ELSE
        LET model_name == OPENROUTER_MODELS[mi].name
            c == CanMakeOpenRouterRequest(orc, model_name, current_time)
            checks1 == Append(checks, [ model |-> model_name, ok |-> c.ok,
                                        len |-> c.len, rpm |-> c.rpm,
                                        window |-> c.orc[model_name], at |-> current_time ])
        IN  IF ~c.ok
            THEN ScanModels(keys, image, mi + 1, attempts + 1, c.orc, current_time, checks1)
            ELSE ScanKeys2(keys, image, mi, 1, 0, attempts, c.orc, current_time, checks1)

\* "for model_config in OPENROUTER_MODELS", from position mi on
ScanModels(keys, image, mi, attempts, orc, current_time, checks) ==
    IF mi > Len(OPENROUTER_MODELS)
    THEN [ kind |-> "end", orc |-> orc, checks |-> checks, attempts |-> attempts ]
    ELSE IF attempts >= max_total_attempts
    THEN [ kind |-> "end", orc |-> orc, checks |-> checks, attempts |-> attempts ]
    ELSE
        LET model_name == OPENROUTER_MODELS[mi].name
            c == CanMakeOpenRouterRequest(orc, model_name, current_time)
            checks1 == Append(checks, [ model |-> model_name, ok |-> c.ok,
                                        len |-> c.len, rpm |-> c.rpm,
                                        window |-> c.orc[model_name], at |-> current_time ])
        IN  IF ~c.ok
            THEN ScanModels(keys, image, mi + 1, attempts, c.orc, current_time, checks1)
            ELSE ScanKeys2(keys, image, mi, 1, 0, attempts, c.orc, current_time, checks1)

\* faulty variant: no limit on the keys tried for one model
ScanKeys2NoCap(keys, image, mi, ki, keys_tried, attempts, orc, current_time, checks) ==
    IF ki > Len(keys)
    THEN ScanModels(keys, image, mi + 1, attempts, orc, current_time, checks)
    ELSE IF attempts >= max_total_attempts
    THEN ScanModels(keys, image, mi + 1, attempts, orc, current_time, checks)
    ELSE IF FileReadFails(image)
    THEN (IF ClassifyOpenRouter(image.msg) = "rate_limit"
          THEN ScanModels(keys, image, mi + 1, attempts + 1, orc, current_time, checks)
          ELSE ScanKeys2(keys, image, mi, ki + 1, keys_tried + 1, attempts + 1, orc,
                         current_time, checks))
    ELSE [ kind |-> "call", mi |-> mi, ki |-> ki, keys_tried |-> keys_tried + 1,
           attempts |-> attempts + 1, orc |-> orc, checks |-> checks ]

\* "for openrouter_key in self.openrouter_keys", from position ki on
ScanKeys2(keys, image, mi, ki, keys_tried, attempts, orc, current_time, checks) ==
    IF ki > Len(keys)
    THEN ScanModels(keys, image, mi + 1, attempts, orc, current_time, checks)
    ELSE IF keys_tried >= MaxKeysPerModel \/ attempts >= max_total_attempts
    THEN ScanModels(keys, image, mi + 1, attempts, orc, current_time, checks)
    ELSE IF FileReadFails(image)
    THEN (IF ClassifyOpenRouter(image.msg) = "rate_limit"
          THEN ScanModels(keys, image, mi + 1, attempts + 1, orc, current_time, checks)
          ELSE ScanKeys2(keys, image, mi, ki + 1, keys_tried + 1, attempts + 1, orc,
                         current_time, checks))
    ELSE [ kind |-> "call", mi |-> mi, ki |-> ki, keys_tried |-> keys_tried + 1,
           attempts |-> attempts + 1, orc |-> orc, checks |-> checks ]

----------------------------------------------------------------------------
(* One Gemini attempt and one OpenRouter attempt, from the provider's      *)
(* answer to the next await or to the end of generate.                     *)

\* messages of the errors that reading "response.text" raises on a
\* response without a valid part
TextErrors == { {}, {"boom"}, {"api"}, {"rate limit"} }

\* What a provider call can do: return a response with text, return an
\* empty or falsy response, return a response whose "text" accessor raises
\* (message msg), or raise (message msg); an OpenRouter call can also run
\* into the wait_for timeout.
GeminiOutcomes ==
    { [kind |-> "text", msg |-> {}], [kind |-> "empty", msg |-> {}] }
    \cup { [kind |-> "text_raises", msg |-> m] : m \in TextErrors }
    \cup { [kind |-> "error", msg |-> m] : m \in Messages }

OpenRouterOutcomes ==
    { [kind |-> "text", msg |-> {}], [kind |-> "empty", msg |-> {}],
      [kind |-> "timeout", msg |-> {}] }
    \cup { [kind |-> "error", msg |-> m] : m \in Messages }

\* the statements after "response = await ..." run only when the call returned
Returned(out) == out.kind \in {"text", "empty", "text_raises"}

\* faulty variant: only a response with text is recorded
RecordIfText(configs, st, out) ==
    IF out.kind = "text" THEN RecordRequest(configs, st) ELSE st

\* "self._record_request()" right after the awaited Gemini call
RecordIfReturned(configs, st, out) ==
    IF Returned(out) THEN RecordRequest(configs, st) ELSE st

\* "self._record_openrouter_request(model_name)" right after the awaited call
RecordOpenRouterIfReturned(orc, model_name, current_time, out) ==
    IF Returned(out) THEN RecordOpenRouterRequest(orc, model_name, current_time) ELSE orc

\* faulty variant: the final "else: raise e" is missing, every error is retried
GeminiReactionNoRaise(out) ==
    IF out.kind = "text" THEN "return"
    ELSE IF out.kind = "empty" THEN "empty"
    ELSE IF ClassifyGemini(out.msg) = "fatal" THEN "api_error"
    ELSE ClassifyGemini(out.msg)

\* how the Gemini loop body ends for an outcome
GeminiReaction(out) ==
    IF out.kind = "text" THEN "return"
    ELSE IF out.kind = "empty" THEN "empty"
    ELSE ClassifyGemini(out.msg)

\* lines 273-312: the Gemini loop body from the answer of the call on
AfterGemini(configs, akm, st, api_key, out) ==
    LET st1 == RecordIfReturned(configs, st, out)
        reaction == GeminiReaction(out)
    IN  CASE reaction = "return" ->
                [ next |-> "return", st |-> st1, akm |-> akm, backoff |-> 0 ]
          [] reaction = "empty" ->
                [ next |-> "sleep", st |-> SwitchModel(configs, st1), akm |-> akm,
                  backoff |-> Backoff ]
          [] reaction = "rate_limit" ->
                [ next |-> "sleep", st |-> st1,
                  akm |-> MarkRateLimited(akm, api_key, st1.t), backoff |-> Backoff ]
          [] reaction = "timeout" ->
                [ next |-> "sleep", st |-> SwitchModel(configs, st1), akm |-> akm,
                  backoff |-> Backoff ]
          [] reaction = "api_error" ->
                [ next |-> "sleep", st |-> SwitchModel(configs, st1), akm |-> akm,
                  backoff |-> ApiErrorBackoff ]
          [] OTHER ->
                [ next |-> "raise", st |-> st1, akm |-> akm, backoff |-> 0 ]

\* faulty variant: a timeout gives up the model like a rate-limit error
OpenRouterReactionTimeoutNextModel(out) ==
    IF out.kind = "text" THEN "return"
    ELSE IF out.kind = "empty" THEN "next_key"
    ELSE IF out.kind = "timeout" THEN "next_model"
    ELSE IF ClassifyOpenRouter(out.msg) = "rate_limit" THEN "next_model"
    ELSE "next_key"

\* faulty variant: "if response_text" is missing, empty content is returned as the text
OpenRouterReactionEmptyIsText(out) ==
    IF out.kind \in {"text", "empty"} THEN "return"
    ELSE IF out.kind = "timeout" THEN "next_key"
    ELSE IF ClassifyOpenRouter(out.msg) = "rate_limit" THEN "next_model"
    ELSE "next_key"

\* how the OpenRouter key loop body ends for an outcome
OpenRouterReaction(out) ==
    IF out.kind = "text" THEN "return"
    ELSE IF out.kind \in {"empty", "timeout"} THEN "next_key"
    ELSE IF ClassifyOpenRouter(out.msg) = "rate_limit" THEN "next_model"
    ELSE "next_key"

\* lines 376-397 and the loop heads that follow: from the answer of the
\* OpenRouter call on model mi with key ki to the next call or the end
AfterOpenRouter(keys, image, mi, ki, keys_tried, attempts, orc, current_time, out) ==
    LET model_name == OPENROUTER_MODELS[mi].name
        orc1 == RecordOpenRouterIfReturned(orc, model_name, current_time, out)
        reaction == OpenRouterReaction(out)
    IN  CASE reaction = "return" ->
                [ kind |-> "return", orc |-> orc1, checks |-> << >>, attempts |-> attempts ]
          [] reaction = "next_model" ->
                ScanModels(keys, image, mi + 1, attempts, orc1, current_time, << >>)
          [] OTHER ->
                ScanKeys2(keys, image, mi, ki + 1, keys_tried, attempts, orc1,
                          current_time, << >>)

----------------------------------------------------------------------------
(* State *)

Procs == {"g1"}

\* values of max_retries the callers pass (the default is 3)
RetryInputs == {0, 1, 2}

\* seconds a provider call that returns takes at the resolution of the clock
CallTimes == {0}

\* constructor arguments and environment variables (GOOGLE_API_KEYS,
\* OPENROUTER_API_KEYS) the managers are built from
GeminiSources ==
    { [passed |-> << >>, env |-> << >>],
      [passed |-> <<"A">>, env |-> << >>],
      [passed |-> <<"A">>, env |-> <<"E">>],
      [passed |-> << >>, env |-> <<"A", " B">>],
      [passed |-> <<"A", " ", "B">>, env |-> <<"E">>] }

OpenRouterSources ==
    { [passed |-> << >>, env |-> << >>],
      [passed |-> <<"K1">>, env |-> << >>],
      [passed |-> <<"K1">>, env |-> <<"E">>],
      [passed |-> << >>, env |-> <<"K1", "K2 ", "", "K3">>] }

WithKeys(sources) == {s \in sources : EffectiveKeys(s) # << >>}

WithoutKeys(sources) == {s \in sources : EffectiveKeys(s) = << >>}

TierLists ==
    { << [name |-> "T1", rpm |-> 1] >>,
      << [name |-> "T1", rpm |-> 1], [name |-> "T2", rpm |-> 1] >>,
      << [name |-> "T1", rpm |-> 2], [name |-> "T2", rpm |-> 1], [name |-> "T3", rpm |-> 1] >> }

PoolKeyLists == { <<"A">>, <<"A", "B">>, <<"A", "B", "C">> }

ModelNames(configs) == {configs[i].name : i \in 1..Len(configs)}

OpenRouterNames == ModelNames(OPENROUTER_MODELS)

NoCall ==
    [ provider |-> "none", model |-> "none", key |-> NoKey, kind |-> "none",
      msg |-> {} ]

IdleInv ==
    [ pc |-> "idle", max_retries |-> 0, api_attempt |-> 0, api_key |-> NoKey,
      call_model |-> "none", wake_at |-> 0, mi |-> 0, ki |-> 0, keys_tried |-> 0,
      attempts |-> 0, result |-> "none", prim_calls |-> 0, sec_calls |-> 0,
      sec_models |-> << >>, sec_keys |-> << >>, prim_iters |-> 0,
      last_reaction |-> "none", image |-> NoImage,
      t_start |-> 0 ]

\* built_from keeps the constructor arguments and the environment variables
\* the manager was constructed from; only_rl: every Gemini call so far
\* raised a rate-limit error; last_recorded: the last Gemini attempt got a
\* response, which _record_request put into the window
InitHist(configs, gs, os) ==
    [ op |-> "init", built_from |-> [gemini |-> gs, openrouter |-> os],
      nops |-> 0, ngen |-> 0, key |-> NoKey, avail |-> << >>,
      checks |-> << >>, call |-> NoCall, gained |-> {}, waits |-> 0,
      switches |-> 0, switch_from |-> 0,
      accepted |-> [m \in ModelNames(configs) \cup OpenRouterNames |-> << >>],
      only_rl |-> TRUE, last_recorded |-> FALSE ]

\* the history fields that describe the last action only
Fresh(op) ==
    [ hist EXCEPT !.op = op, !.key = NoKey, !.avail = << >>, !.checks = << >>,
                  !.call = NoCall, !.gained = {}, !.waits = 0,
                  !.switches = 0, !.switch_from = 0 ]

\* the models whose window is longer in `after` than in `before`, each with
\* the number of entries gained
Gained(before, after) ==
    { <<m, Len(after[m]) - Len(before[m])>> : m \in {n \in DOMAIN before : Len(after[n]) > Len(before[n])} }

\* the history of requests answered with text on a model, kept to the 60 seconds before t
Accept(accepted, model_name, t) ==
    [ accepted EXCEPT ![model_name] =
        Append(SelectSeq(@, LAMBDA e : t - e < WindowSeconds), t) ]

\* FreeLLMManager.__init__(gemini_api_keys, openrouter_api_keys, model_configs)
\* at time T0, with a non-empty model_configs; prefill > 0 gives the state
\* after earlier generate calls that left `prefill` entries in the window of
\* the second OpenRouter model (first model rate limited, second one
\* answering with empty content)
ConstructedManager(gs, os, mc, prefill) ==
    /\ now = T0
    /\ gemini_keys = EffectiveKeys(gs)
    /\ openrouter_keys = EffectiveKeys(os)
    /\ model_configs = mc
    /\ api_key_manager = NewAPIKeyManager(EffectiveKeys(gs))
    /\ current_model_config = 1
    /\ model_request_counts = [m \in ModelNames(mc) |-> << >>]
    /\ openrouter_request_counts =
          [m \in OpenRouterNames |->
              IF m = OPENROUTER_MODELS[2].name THEN [i \in 1..prefill |-> T0] ELSE << >>]
    /\ hist = InitHist(mc, gs, os)

\* the manager and the invocations of the sequential callers, all idle
Constructed(gs, os, mc, prefill) ==
    /\ ConstructedManager(gs, os, mc, prefill)
    /\ inv = [p \in Procs |-> IdleInv]

\* the managers and call budgets explored: a manager with Gemini keys only,
\* or with a single OpenRouter key only, serves MaxGenerates calls; the other
\* managers with OpenRouter keys serve one call, from a fresh state or from a
\* filled window of the second OpenRouter model
Scenarios ==
    { [gs |-> gs, os |-> os, mc |-> mc, prefill |-> 0, budget |-> MaxGenerates] :
        gs \in WithKeys(GeminiSources), os \in WithoutKeys(OpenRouterSources),
        mc \in TierLists }
    \cup { [gs |-> gs, os |-> os, mc |-> mc, prefill |-> 0, budget |-> 1] :
        gs \in WithoutKeys(GeminiSources), os \in OpenRouterSources,
        mc \in {t \in TierLists : Len(t) = 2} }
    \cup { [gs |-> gs, os |-> os, mc |-> mc, prefill |-> 0, budget |-> MaxGenerates] :
        gs \in WithoutKeys(GeminiSources),
        os \in {o \in OpenRouterSources : Len(EffectiveKeys(o)) = 1},
        mc \in {t \in TierLists : Len(t) = 2} }
    \cup { [gs |-> gs, os |-> os, mc |-> mc, prefill |-> n, budget |-> 1] :
        gs \in WithoutKeys(GeminiSources),
        os \in {o \in OpenRouterSources : Len(EffectiveKeys(o)) > 1},
        mc \in {t \in TierLists : Len(t) = 2}, n \in {PreFill, PreFill + 1} }
    \cup { [gs |-> gs, os |-> os, mc |-> mc, prefill |-> 0, budget |-> 1] :
        gs \in WithKeys(GeminiSources), os \in WithKeys(OpenRouterSources),
        mc \in {t \in TierLists : Len(t) = 2} }

Init ==
    \E s \in Scenarios :
        /\ Constructed(s.gs, s.os, s.mc, s.prefill)
        /\ budget = s.budget

----------------------------------------------------------------------------
(* Actions of generate_content_with_fallback for invocation p *)

Limiter == [ cur |-> current_model_config, mrc |-> model_request_counts, t |-> now ]

\* faulty variant: the loop gives up one iteration early
LoopRunsOneLess(api_attempt, max_retries) == api_attempt < max_retries - 1

\* faulty variant: the loop runs one iteration more than max_retries
LoopRunsOneMore(api_attempt, max_retries) == api_attempt <= max_retries

\* "for api_attempt in range(max_retries)": there is an iteration left
LoopRuns(api_attempt, max_retries) == api_attempt < max_retries

AllIdle == \A q \in Procs : inv[q].pc = "idle"

\* a caller invokes generate_content_with_fallback(prompt, image_path, max_retries)
Generate(p, max_retries, image) ==
    /\ AllIdle
    /\ hist.ngen < budget
    /\ inv' = [inv EXCEPT ![p] = [ IdleInv EXCEPT !.pc = "gemini_loop",
                                     !.max_retries = max_retries, !.image = image,
                                     !.t_start = now ]]
    /\ hist' = [Fresh("Generate") EXCEPT !.ngen = @ + 1]
    /\ UNCHANGED <<now, gemini_keys, openrouter_keys, model_configs, api_key_manager,
                   current_model_config, model_request_counts, openrouter_request_counts, budget>>

\* the for loop ends (range(max_retries) used up) or "break  # Skip Gemini if no keys"
GeminiLoopExit(p) ==
    /\ inv[p].pc = "gemini_loop"
    /\ \/ ~LoopRuns(inv[p].api_attempt, inv[p].max_retries)
       \/ SkipsGemini(gemini_keys)
    /\ inv' = [inv EXCEPT ![p].pc = "fallback"]
    /\ hist' = Fresh("GeminiLoopExit")
    /\ UNCHANGED <<now, gemini_keys, openrouter_keys, model_configs, api_key_manager,
                   current_model_config, model_request_counts, openrouter_request_counts, budget>>

\* lines 249-252: no capacity; _can_make_request has switched the model,
\* the loop body switches again, then awaits asyncio.sleep(5)
GeminiNoCapacity(p) ==
    LET c == CanMakeRequest(HasManager(gemini_keys), model_configs, Limiter)
        st == SwitchModel(model_configs, c.st)
    IN  /\ inv[p].pc = "gemini_loop"
        /\ LoopRuns(inv[p].api_attempt, inv[p].max_retries)
        /\ ~SkipsGemini(gemini_keys)
        /\ ~c.ok
        /\ st.t <= MaxTime
        /\ now' = st.t
        /\ current_model_config' = st.cur
        /\ model_request_counts' = st.mrc
        /\ inv' = [inv EXCEPT ![p].pc = "sleep", ![p].wake_at = st.t + Backoff,
                               ![p].prim_iters = @ + 1]
        /\ hist' = [Fresh("GeminiNoCapacity") EXCEPT
                      !.checks = << [ model |-> model_configs[current_model_config].name,
                                      ok |-> c.ok, len |-> c.len, rpm |-> c.rpm,
                                      window |-> c.window,
                                      at |-> now ] >>]
        /\ UNCHANGED <<gemini_keys, openrouter_keys, model_configs, api_key_manager,
                       openrouter_request_counts, budget>>

\* lines 249-271: capacity; a key is drawn (get_next_key may block in
\* time.sleep(2) steps), the client of the current model is taken, the
\* image (if any) loads and the call is awaited
GeminiAcquire(p) ==
    LET c == CanMakeRequest(HasManager(gemini_keys), model_configs, Limiter)
        r == GetNextKey(api_key_manager, now)
    IN  /\ inv[p].pc = "gemini_loop"
        /\ LoopRuns(inv[p].api_attempt, inv[p].max_retries)
        /\ ~SkipsGemini(gemini_keys)
        /\ c.ok
        /\ ~ImageLoadFails(inv[p].image)
        /\ r.t <= MaxTime
        /\ now' = r.t
        /\ api_key_manager' = r.akm
        /\ current_model_config' = c.st.cur
        /\ model_request_counts' = c.st.mrc
        /\ inv' = [inv EXCEPT ![p].pc = "gemini_call", ![p].api_key = r.key,
                               ![p].call_model = model_configs[c.st.cur].name,
                               ![p].prim_calls = @ + 1,
                               ![p].prim_iters = @ + 1]
        /\ hist' = [Fresh("GeminiAcquire") EXCEPT
                      !.key = r.key, !.waits = r.waits,
                      !.checks = << [ model |-> model_configs[current_model_config].name,
                                      ok |-> c.ok, len |-> c.len, rpm |-> c.rpm,
                                      window |-> c.window,
                                      at |-> now ] >>]
        /\ UNCHANGED <<gemini_keys, openrouter_keys, model_configs,
                       openrouter_request_counts, budget>>

\* lines 249-263 and 286-312: capacity; the key is drawn and the client
\* taken, then loading the image raises inside the try: the except clause
\* runs on the message of that error, and no provider call is made
GeminiLoadFails(p) ==
    LET c == CanMakeRequest(HasManager(gemini_keys), model_configs, Limiter)
        r == GetNextKey(api_key_manager, now)
        st0 == [ cur |-> c.st.cur, mrc |-> c.st.mrc, t |-> r.t ]
        raised == [ kind |-> "error", msg |-> inv[p].image.msg ]
        a == AfterGemini(model_configs, r.akm, st0, r.key, raised)
    IN  /\ inv[p].pc = "gemini_loop"
        /\ LoopRuns(inv[p].api_attempt, inv[p].max_retries)
        /\ ~SkipsGemini(gemini_keys)
        /\ c.ok
        /\ ImageLoadFails(inv[p].image)
        /\ a.st.t <= MaxTime
        /\ now' = a.st.t
        /\ api_key_manager' = a.akm
        /\ current_model_config' = a.st.cur
        /\ model_request_counts' = a.st.mrc
        /\ inv' = [inv EXCEPT
                     ![p].pc = IF a.next = "sleep" THEN "sleep" ELSE "done",
                     ![p].wake_at = IF a.next = "sleep" THEN a.st.t + a.backoff ELSE 0,
                     ![p].result = IF a.next = "raise" THEN "raised" ELSE "none",
                     ![p].api_key = r.key,
                     ![p].prim_iters = @ + 1,
                     ![p].last_reaction = GeminiReaction(raised)]
        /\ hist' = [Fresh("GeminiLoadFails") EXCEPT
                      !.key = r.key, !.waits = r.waits,
                      !.checks = << [ model |-> model_configs[current_model_config].name,
                                      ok |-> c.ok, len |-> c.len, rpm |-> c.rpm,
                                      window |-> c.window,
                                      at |-> now ] >>,
                      !.last_recorded = FALSE]
        /\ UNCHANGED <<gemini_keys, openrouter_keys, model_configs,
                       openrouter_request_counts, budget>>

\* the awaited Gemini call ends after d seconds with outcome out; the loop
\* body runs to its return, raise, or asyncio.sleep
GeminiResponse(p, d, out) ==
    LET st0 == [ cur |-> current_model_config, mrc |-> model_request_counts, t |-> now + d ]
        a == AfterGemini(model_configs, api_key_manager, st0, inv[p].api_key, out)
        st1 == RecordIfReturned(model_configs, st0, out)
    IN  /\ inv[p].pc = "gemini_call"
        /\ a.st.t <= MaxTime
        /\ now' = a.st.t
        /\ api_key_manager' = a.akm
        /\ current_model_config' = a.st.cur
        /\ model_request_counts' = a.st.mrc
        /\ inv' = [inv EXCEPT
                     ![p].pc = IF a.next = "sleep" THEN "sleep" ELSE "done",
                     ![p].wake_at = IF a.next = "sleep" THEN a.st.t + a.backoff ELSE 0,
                     ![p].result = CASE a.next = "return" -> "text"
                                     [] a.next = "raise" -> "raised"
                                     [] OTHER -> "none",
                     ![p].last_reaction = GeminiReaction(out)]
        /\ hist' = [Fresh("GeminiResponse") EXCEPT
                      !.call = [ provider |-> "gemini", model |-> inv[p].call_model,
                                 key |-> inv[p].api_key, kind |-> out.kind,
                                 msg |-> out.msg ],
                      !.gained = Gained(model_request_counts, st1.mrc),
                      !.accepted = IF a.next = "return"
                                   THEN Accept(@, inv[p].call_model, now + d)
                                   ELSE @,
                      !.only_rl = @ /\ out.kind = "error"
                                    /\ ClassifyGemini(out.msg) = "rate_limit",
                      !.last_recorded = Returned(out)]
        /\ UNCHANGED <<gemini_keys, openrouter_keys, model_configs,
                       openrouter_request_counts, budget>>

\* asyncio.sleep is over: "continue" with the next api_attempt
Wake(p) ==
    /\ inv[p].pc = "sleep"
    /\ Max(now, inv[p].wake_at) <= MaxTime
    /\ now' = Max(now, inv[p].wake_at)
    /\ inv' = [inv EXCEPT ![p].pc = "gemini_loop", ![p].api_attempt = @ + 1,
                           ![p].wake_at = 0]
    /\ hist' = Fresh("Wake")
    /\ UNCHANGED <<gemini_keys, openrouter_keys, model_configs, api_key_manager,
                   current_model_config, model_request_counts, openrouter_request_counts, budget>>

\* where an OpenRouter scan result leaves the invocation
AfterScan(p, r) ==
    IF r.kind = "call"
    THEN [inv[p] EXCEPT !.pc = "openrouter_call", !.mi = r.mi, !.ki = r.ki,
                        !.keys_tried = r.keys_tried, !.attempts = r.attempts,
                        !.api_key = openrouter_keys[r.ki],
                        !.call_model = OPENROUTER_MODELS[r.mi].name,
                        !.sec_calls = @ + 1,
                        !.sec_models = Append(@, r.mi),
                        !.sec_keys = Append(@, openrouter_keys[r.ki])]
    ELSE [inv[p] EXCEPT !.pc = "done", !.mi = 0, !.ki = 0, !.keys_tried = 0,
                        !.attempts = r.attempts,
                        !.result = IF r.kind = "return" THEN "text" ELSE "all_failed"]

\* lines 314-402 up to the first OpenRouter call: without OpenRouter keys the
\* final "All free LLM providers failed" exception is raised at once
Fallback(p) ==
    LET r == ScanModels(openrouter_keys, inv[p].image, 1, 0, openrouter_request_counts,
                        now, << >>)
    IN  /\ inv[p].pc = "fallback"
        /\ IF openrouter_keys = << >>
           THEN /\ inv' = [inv EXCEPT ![p].pc = "done", ![p].result = "all_failed"]
                /\ hist' = Fresh("Fallback")
                /\ UNCHANGED openrouter_request_counts
           ELSE /\ inv' = [inv EXCEPT ![p] = AfterScan(p, r)]
                /\ hist' = [Fresh("Fallback") EXCEPT !.checks = r.checks]
                /\ openrouter_request_counts' = r.orc
        /\ UNCHANGED <<now, gemini_keys, openrouter_keys, model_configs, api_key_manager,
                       current_model_config, model_request_counts, budget>>

\* the awaited OpenRouter call ends with outcome out (after d seconds, or
\* after the 30 seconds of wait_for on a timeout); the loops run on to the
\* next call, the return, or the final exception
OpenRouterResponse(p, d, out) ==
    LET t == now + (IF out.kind = "timeout" THEN OpenRouterTimeout ELSE d)
        model_name == OPENROUTER_MODELS[inv[p].mi].name
        r == AfterOpenRouter(openrouter_keys, inv[p].image, inv[p].mi, inv[p].ki,
                             inv[p].keys_tried, inv[p].attempts,
                             openrouter_request_counts, t, out)
        orc1 == RecordOpenRouterIfReturned(openrouter_request_counts, model_name, t, out)
    IN  /\ inv[p].pc = "openrouter_call"
        /\ t <= MaxTime
        /\ now' = t
        /\ openrouter_request_counts' = r.orc
        /\ inv' = [inv EXCEPT ![p] = AfterScan(p, r)]
        /\ hist' = [Fresh("OpenRouterResponse") EXCEPT
                      !.checks = r.checks,
                      !.call = [ provider |-> "openrouter", model |-> model_name,
                                 key |-> inv[p].api_key, kind |-> out.kind,
                                 msg |-> out.msg ],
                      !.gained = Gained(openrouter_request_counts, orc1),
                      !.accepted = IF r.kind = "return" THEN Accept(@, model_name, t) ELSE @]
        /\ UNCHANGED <<gemini_keys, openrouter_keys, model_configs, api_key_manager,
                       current_model_config, model_request_counts, budget>>

\* the caller has the text or the exception; the invocation is over
Finish(p) ==
    /\ inv[p].pc = "done"
    /\ inv' = [inv EXCEPT ![p] = IdleInv]
    /\ hist' = Fresh("Finish")
    /\ UNCHANGED <<now, gemini_keys, openrouter_keys, model_configs, api_key_manager,
                   current_model_config, model_request_counts, openrouter_request_counts, budget>>

\* time passes between two generate calls (one step per pause)
IdleSteps == {1, WindowSeconds}

Tick(d) ==
    /\ AllIdle
    /\ hist.op = "Finish"
    /\ hist.ngen < budget
    /\ now + d <= MaxTime
    /\ now' = now + d
    /\ hist' = Fresh("Tick")
    /\ UNCHANGED <<gemini_keys, openrouter_keys, model_configs, api_key_manager,
                   current_model_config, model_request_counts, openrouter_request_counts,
                   inv, budget>>

Next ==
    \/ \E p \in Procs, max_retries \in RetryInputs, image \in ImageInputs :
          Generate(p, max_retries, image)
    \/ \E p \in Procs : GeminiLoopExit(p)
    \/ \E p \in Procs : GeminiNoCapacity(p)
    \/ \E p \in Procs : GeminiAcquire(p)
    \/ \E p \in Procs : GeminiLoadFails(p)
    \/ \E p \in Procs, d \in CallTimes, out \in GeminiOutcomes : GeminiResponse(p, d, out)
    \/ \E p \in Procs : Wake(p)
    \/ \E p \in Procs : Fallback(p)
    \/ \E p \in Procs, d \in CallTimes, out \in OpenRouterOutcomes :
          OpenRouterResponse(p, d, out)
    \/ \E p \in Procs : Finish(p)
    \/ \E d \in IdleSteps : Tick(d)

Spec == Init /\ [][Next]_vars

----------------------------------------------------------------------------
(* The APIKeyManager driven directly by its callers: get_next_key,         *)
(* mark_rate_limited and get_available_keys in any order, with pauses.     *)

PoolInit ==
    \E api_keys \in PoolKeyLists :
        /\ Constructed([passed |-> api_keys, env |-> <<"E">>],
                       [passed |-> << >>, env |-> << >>],
                       << [name |-> "T1", rpm |-> 1] >>, 0)
        /\ budget = 0

PoolFrame ==
    UNCHANGED <<gemini_keys, openrouter_keys, model_configs, current_model_config,
                model_request_counts, openrouter_request_counts, inv, budget>>

PoolGetNextKey ==
    LET r == GetNextKey(api_key_manager, now)
    IN  /\ hist.nops < MaxPoolOps
        /\ r.t <= MaxTime
        /\ now' = r.t
        /\ api_key_manager' = r.akm
        /\ hist' = [Fresh("PoolGetNextKey") EXCEPT !.nops = @ + 1, !.key = r.key,
                                                   !.waits = r.waits]
        /\ PoolFrame

PoolMarkRateLimited(api_key) ==
    /\ hist.nops < MaxPoolOps
    /\ api_key_manager' = MarkRateLimited(api_key_manager, api_key, now)
    /\ hist' = [Fresh("PoolMarkRateLimited") EXCEPT !.nops = @ + 1, !.key = api_key]
    /\ now' = now
    /\ PoolFrame

PoolGetAvailableKeys ==
    /\ hist.op # "PoolGetAvailableKeys"
    /\ hist' = [Fresh("PoolGetAvailableKeys") EXCEPT
                  !.avail = GetAvailableKeys(api_key_manager, now)]
    /\ UNCHANGED <<now, api_key_manager>>
    /\ PoolFrame

\* pauses between calls: a second, just short of a ban, a whole ban
PoolSteps == {min_interval, rate_limit_delay - 1, rate_limit_delay}

PoolTick(d) ==
    /\ hist.nops < MaxPoolOps
    /\ now + d <= MaxTime
    /\ now' = now + d
    /\ hist' = [Fresh("PoolTick") EXCEPT !.nops = @ + 1]
    /\ UNCHANGED api_key_manager
    /\ PoolFrame

NextPool ==
    \/ PoolGetNextKey
    \/ \E api_key \in Range(api_key_manager.api_keys) : PoolMarkRateLimited(api_key)
    \/ PoolGetAvailableKeys
    \/ \E d \in PoolSteps : PoolTick(d)

SpecPool == PoolInit /\ [][NextPool]_vars

----------------------------------------------------------------------------
(* Several generate_content_with_fallback coroutines on one manager and    *)
(* one event loop. A step is what a coroutine runs between two awaits; a   *)
(* blocking time.sleep is inside the step, and nothing else runs meanwhile.*)
(* The event loop resumes the sleepers of asyncio.sleep in the order of    *)
(* their deadlines. The managers have Gemini keys only.                    *)

ConcProcs == {"g1", "g2"}

\* values of max_retries and provider outcomes of the concurrent callers
ConcRetryInputs == {1, 2}

ConcOutcomes ==
    { [kind |-> "text", msg |-> {}], [kind |-> "empty", msg |-> {}],
      [kind |-> "error", msg |-> {"rate limit"}], [kind |-> "error", msg |-> {"boom"}] }

ConcInit ==
    \E mc \in {t \in TierLists : Len(t) <= 2} :
        /\ ConstructedManager([passed |-> <<"A", "B">>, env |-> <<"E">>],
                              [passed |-> << >>, env |-> << >>], mc, 0)
        /\ inv = [p \in ConcProcs |-> IdleInv]
        /\ budget = 0

\* a caller starts coroutine p while the other may be under way; each
\* coroutine runs once and keeps its result (the coroutines of SpecConc are
\* started without image, or with one that loads)
ConcGenerate(p, max_retries, image) ==
    /\ inv[p].pc = "idle"
    /\ inv' = [inv EXCEPT ![p] = [ IdleInv EXCEPT !.pc = "gemini_loop",
                                     !.max_retries = max_retries, !.image = image,
                                     !.t_start = now ]]
    /\ hist' = [Fresh("Generate") EXCEPT !.ngen = @ + 1]
    /\ UNCHANGED <<now, gemini_keys, openrouter_keys, model_configs, api_key_manager,
                   current_model_config, model_request_counts, openrouter_request_counts, budget>>

\* the sleeper with the earliest deadline is the one the event loop resumes
TimerDue(p) ==
    /\ inv[p].pc = "sleep"
    /\ \A q \in ConcProcs : inv[q].pc = "sleep" => inv[p].wake_at <= inv[q].wake_at

ConcWake(p) == TimerDue(p) /\ Wake(p)

NextConc ==
    \/ \E p \in ConcProcs, max_retries \in ConcRetryInputs :
          ConcGenerate(p, max_retries, NoImage)
    \/ \E p \in ConcProcs : GeminiLoopExit(p)
    \/ \E p \in ConcProcs : GeminiNoCapacity(p)
    \/ \E p \in ConcProcs : GeminiAcquire(p)
    \/ \E p \in ConcProcs, d \in CallTimes, out \in ConcOutcomes : GeminiResponse(p, d, out)
    \/ \E p \in ConcProcs : ConcWake(p)
    \/ \E p \in ConcProcs : Fallback(p)

SpecConc == ConcInit /\ [][NextConc]_vars

----------------------------------------------------------------------------
(* The request windows and the model rotation driven directly: the helper  *)
(* methods _can_make_request, _record_request, _switch_model,              *)
(* _can_make_openrouter_request and _record_openrouter_request called in   *)
(* any order, with pauses.                                                 *)

\* managers with one Gemini key: every call of _can_make_request,
\* _record_request and _switch_model lies in the Gemini loop past "if not
\* self.api_key_manager: break", so these helpers only ever run on a
\* manager that has Gemini keys; the second OpenRouter window is empty or
\* holds the entries of earlier calls
LimiterInit ==
    \E gs \in {g \in GeminiSources : Len(EffectiveKeys(g)) = 1},
       mc \in TierLists, prefill \in {0, PreFill} :
        /\ Constructed(gs, [passed |-> << >>, env |-> << >>], mc, prefill)
        /\ budget = 0

LimiterFrame ==
    UNCHANGED <<gemini_keys, openrouter_keys, model_configs, api_key_manager, inv, budget>>

LimCanMakeRequest ==
    LET c == CanMakeRequest(HasManager(gemini_keys), model_configs, Limiter)
    IN  /\ hist.nops < MaxLimiterOps
        /\ c.st.t <= MaxTime
        /\ now' = c.st.t
        /\ current_model_config' = c.st.cur
        /\ model_request_counts' = c.st.mrc
        /\ hist' = [Fresh("LimCanMakeRequest") EXCEPT
                      !.nops = @ + 1,
                      !.checks = << [ model |-> model_configs[current_model_config].name,
                                      ok |-> c.ok, len |-> c.len, rpm |-> c.rpm,
                                      window |-> c.window, at |-> now ] >>]
        /\ UNCHANGED openrouter_request_counts
        /\ LimiterFrame

LimRecordRequest ==
    LET st == RecordRequest(model_configs, Limiter)
    IN  /\ hist.nops < MaxLimiterOps
        /\ model_request_counts' = st.mrc
        /\ hist' = [Fresh("LimRecordRequest") EXCEPT
                      !.nops = @ + 1,
                      !.gained = Gained(model_request_counts, st.mrc)]
        /\ UNCHANGED <<now, current_model_config, openrouter_request_counts>>
        /\ LimiterFrame

LimSwitchModel ==
    LET st == SwitchModel(model_configs, Limiter)
    IN  /\ hist.nops < MaxLimiterOps
        /\ st.t <= MaxTime
        /\ now' = st.t
        /\ current_model_config' = st.cur
        /\ model_request_counts' = st.mrc
        /\ hist' = [Fresh("LimSwitchModel") EXCEPT
                      !.nops = @ + 1,
                      !.switches = hist.switches + 1,
                      !.switch_from = IF hist.switches = 0 THEN current_model_config
                                      ELSE hist.switch_from]
        /\ UNCHANGED openrouter_request_counts
        /\ LimiterFrame

LimCanMakeOpenRouterRequest(model_name) ==
    LET c == CanMakeOpenRouterRequest(openrouter_request_counts, model_name, now)
    IN  /\ hist.nops < MaxLimiterOps
        /\ openrouter_request_counts' = c.orc
        /\ hist' = [Fresh("LimCanMakeOpenRouterRequest") EXCEPT
                      !.nops = @ + 1,
                      !.checks = << [ model |-> model_name, ok |-> c.ok,
                                      len |-> c.len, rpm |-> c.rpm,
                                      window |-> c.orc[model_name], at |-> now ] >>]
        /\ UNCHANGED <<now, current_model_config, model_request_counts>>
        /\ LimiterFrame

LimRecordOpenRouterRequest(model_name) ==
    LET orc == RecordOpenRouterRequest(openrouter_request_counts, model_name, now)
    IN  /\ hist.nops < MaxLimiterOps
        /\ openrouter_request_counts' = orc
        /\ hist' = [Fresh("LimRecordOpenRouterRequest") EXCEPT
                      !.nops = @ + 1,
                      !.gained = Gained(openrouter_request_counts, orc)]
        /\ UNCHANGED <<now, current_model_config, model_request_counts>>
        /\ LimiterFrame

\* pauses between calls: a second, just short of a window, a whole window
LimiterSteps == {1, WindowSeconds - 1, WindowSeconds}

LimTick(d) ==
    /\ hist.nops < MaxLimiterOps
    /\ now + d <= MaxTime
    /\ now' = now + d
    /\ hist' = [Fresh("LimTick") EXCEPT !.nops = @ + 1]
    /\ UNCHANGED <<current_model_config, model_request_counts, openrouter_request_counts>>
    /\ LimiterFrame

\* the OpenRouter models the helpers are called for
LimiterModels == {OPENROUTER_MODELS[1].name, OPENROUTER_MODELS[2].name}

NextLimiter ==
    \/ LimCanMakeRequest
    \/ LimRecordRequest
    \/ LimSwitchModel
    \/ \E model_name \in LimiterModels : LimCanMakeOpenRouterRequest(model_name)
    \/ \E model_name \in LimiterModels : LimRecordOpenRouterRequest(model_name)
    \/ \E d \in LimiterSteps : LimTick(d)

SpecLimiter == LimiterInit /\ [][NextLimiter]_vars

----------------------------------------------------------------------------
(* Claims about the APIKeyManager (checked under SpecPool) *)

\* a credential as the contract sees it: not banned and not used in the last second
AvailableAt(akm, key, t) ==
    /\ t >= akm.key_rate_limited_until[key]
    /\ t - akm.key_last_used[key] >= min_interval

\* position (0-based) of a key in the list, keys being pairwise different
PositionOf(akm, key) == (CHOOSE i \in 1..Len(akm.api_keys) : akm.api_keys[i] = key) - 1

\* rank of a key in rotation order starting at the rotation pointer
RotationRank(akm, key) ==
    (PositionOf(akm, key) - akm.current_key_index + Len(akm.api_keys)) % Len(akm.api_keys)

\* C8: a credential that get_next_key or get_available_keys has just returned
\* is not under a ban: the clock has reached its key_rate_limited_until, so
\* after mark_rate_limited(c) the key c is not returned before that time.
C8_BannedKeyNotReturned ==
    /\ hist.op = "PoolGetNextKey" =>
          now >= api_key_manager.key_rate_limited_until[hist.key]
    /\ hist.op = "PoolGetAvailableKeys" =>
          \A i \in 1..Len(hist.avail) :
              now >= api_key_manager.key_rate_limited_until[hist.avail[i]]

\* a key that was banned is drawn again once its ban is over
C8_Witness ==
    /\ hist.op = "PoolGetNextKey"
    /\ api_key_manager.key_rate_limited_until[hist.key] > 0
    /\ now >= api_key_manager.key_rate_limited_until[hist.key]
    /\ \E k \in Range(api_key_manager.api_keys) :
          now < api_key_manager.key_rate_limited_until[k]

\* C9: get_next_key returns an available key of least usage count, the first
\* such key in rotation order from the rotation pointer; it returns at once
\* when a key is available; it sets the key's last use to the time of the
\* draw, adds one to its usage count, moves the pointer to one past the
\* key's position, and leaves every other field of every key alone.
C9_Step ==
    hist'.op = "PoolGetNextKey" =>
        LET akm == api_key_manager
            key == hist'.key
            avail == {k \in Range(akm.api_keys) : AvailableAt(akm, k, now')}
        IN  /\ key \in avail
            /\ \A k \in avail :
                  /\ akm.key_usage_count[key] <= akm.key_usage_count[k]
                  /\ akm.key_usage_count[k] = akm.key_usage_count[key] =>
                        RotationRank(akm, key) <= RotationRank(akm, k)
            /\ (\E k \in Range(akm.api_keys) : AvailableAt(akm, k, now)) => now' = now
            /\ api_key_manager'.key_last_used[key] = now'
            /\ api_key_manager'.key_usage_count[key] = akm.key_usage_count[key] + 1
            /\ api_key_manager'.current_key_index =
                  (PositionOf(akm, key) + 1) % Len(akm.api_keys)
            /\ api_key_manager'.key_rate_limited_until = akm.key_rate_limited_until
            /\ api_key_manager'.api_keys = akm.api_keys
            /\ \A k \in Range(akm.api_keys) \ {key} :
                  /\ api_key_manager'.key_usage_count[k] = akm.key_usage_count[k]
                  /\ api_key_manager'.key_last_used[k] = akm.key_last_used[k]

C9_LeastUsedInRotation == [][C9_Step]_vars

\* a draw that passes over the first available key in rotation order (A,
\* used once) for a less used one (B, whose ban is over)
C9_Witness ==
    /\ hist.op = "PoolGetNextKey"
    /\ api_key_manager.api_keys = <<"A", "B", "C">>
    /\ hist.key = "B"
    /\ api_key_manager.key_usage_count = [k \in {"A", "B", "C"} |-> 1]
    /\ api_key_manager.key_rate_limited_until["B"] > 0

\* C21: get_available_keys returns exactly the credentials c of the pool
\* with now >= key_rate_limited_until[c] and now - key_last_used[c] >=
\* min_interval, each once and in pool order, and changes nothing: usage
\* counts, last uses, bans, rotation pointer and the clock stay as they were.
C21_Step ==
    hist'.op = "PoolGetAvailableKeys" =>
        LET akm == api_key_manager
            expected == {c \in Range(akm.api_keys) :
                            /\ now >= akm.key_rate_limited_until[c]
                            /\ now - akm.key_last_used[c] >= min_interval}
        IN  /\ Range(hist'.avail) = expected
            /\ Len(hist'.avail) = Cardinality(expected)
            /\ \A i, j \in 1..Len(hist'.avail) :
                  i < j => PositionOf(akm, hist'.avail[i]) < PositionOf(akm, hist'.avail[j])
            /\ api_key_manager' = akm
            /\ now' = now

C21_AvailableExactly == [][C21_Step]_vars

\* a query on a pool of three that leaves out one key for its ban and one
\* for its use within the last second, and returns the third
C21_Witness ==
    /\ hist.op = "PoolGetAvailableKeys"
    /\ api_key_manager.api_keys = <<"A", "B", "C">>
    /\ hist.avail = <<"C">>
    /\ now < api_key_manager.key_rate_limited_until["A"]
    /\ now >= api_key_manager.key_rate_limited_until["B"]
    /\ now - api_key_manager.key_last_used["B"] < min_interval

\* C22: mark_rate_limited(c) sets key_rate_limited_until[c] to now +
\* rate_limit_delay and key_last_used[c] to now and changes nothing else
\* (usage counts, rotation pointer, key list, the fields of the other keys,
\* the clock); on a key that is already banned it only extends the ban: the
\* end of the ban of c never moves back.
C22_Step ==
    hist'.op = "PoolMarkRateLimited" =>
        LET akm == api_key_manager
            c == hist'.key
        IN  /\ c \in Range(akm.api_keys)
            /\ api_key_manager'.key_rate_limited_until[c] = now + rate_limit_delay
            /\ api_key_manager'.key_last_used[c] = now
            /\ api_key_manager'.key_rate_limited_until[c] >= akm.key_rate_limited_until[c]
            /\ api_key_manager'.key_usage_count = akm.key_usage_count
            /\ api_key_manager'.current_key_index = akm.current_key_index
            /\ api_key_manager'.api_keys = akm.api_keys
            /\ \A k \in Range(akm.api_keys) \ {c} :
                  /\ api_key_manager'.key_rate_limited_until[k] = akm.key_rate_limited_until[k]
                  /\ api_key_manager'.key_last_used[k] = akm.key_last_used[k]
            /\ now' = now

C22_MarkRateLimited == [][C22_Step]_vars

\* a key that was never drawn is banned, more than a ban length after
\* construction, while another key banned earlier is still under its ban
C22_Witness ==
    /\ hist.op = "PoolMarkRateLimited"
    /\ now > T0 + rate_limit_delay
    /\ api_key_manager.key_usage_count[hist.key] = 0
    /\ api_key_manager.key_rate_limited_until[hist.key] = now + rate_limit_delay
    /\ \E k \in Range(api_key_manager.api_keys) \ {hist.key} :
          /\ now < api_key_manager.key_rate_limited_until[k]
          /\ api_key_manager.key_rate_limited_until[k] < now + rate_limit_delay

\* seconds until a key is available again (0 or less: it is available)
Remaining(akm, key, t) ==
    Max(akm.key_rate_limited_until[key] - t, akm.key_last_used[key] + min_interval - t)

\* the longest of the remaining times of the keys of the pool
LongestRemaining(akm, t) ==
    CHOOSE r \in {Remaining(akm, k, t) : k \in Range(akm.api_keys)} :
        \A k \in Range(akm.api_keys) : Remaining(akm, k, t) <= r

\* C27: on a pool that is not empty get_next_key always returns a key of
\* the pool; when no key is available it waits in steps of 2 seconds and
\* returns at the first step at which a key is available, so the number of
\* waits is bounded: the waits but the last take less time than the longest
\* remaining ban or minimum interval of the pool.
C27_Step ==
    hist'.op = "PoolGetNextKey" =>
        LET akm == api_key_manager
            waits == hist'.waits
        IN  /\ hist'.key \in Range(akm.api_keys)
            /\ now' = now + KeyWait * waits
            /\ AvailableAt(akm, hist'.key, now')
            /\ \A n \in 0..(waits - 1) :
                  \A k \in Range(akm.api_keys) : ~AvailableAt(akm, k, now + KeyWait * n)
            /\ waits > 0 => KeyWait * (waits - 1) < LongestRemaining(akm, now)
            /\ waits <= (Max(rate_limit_delay, min_interval) + KeyWait - 1) \div KeyWait

C27_AcquireTerminates == [][C27_Step]_vars

\* a draw that waited 30 times for the end of a ban of 60 seconds
C27_Witness ==
    /\ hist.op = "PoolGetNextKey"
    /\ hist.waits = rate_limit_delay \div KeyWait
    /\ now = api_key_manager.key_rate_limited_until[hist.key]

----------------------------------------------------------------------------
(* Claims about the request windows and the model rotation (checked under  *)
(* SpecLimiter)                                                            *)

\* C11: current_model_config always designates a model of model_configs;
\* after k successive _switch_model calls it is k positions (round robin)
\* past the model that was current before the first of them, so it is back
\* at that model after exactly len(model_configs) calls and not before.
C11_RoundRobinClosure ==
    LET n == Len(model_configs)
    IN  /\ current_model_config \in 1..n
        /\ hist.op = "LimSwitchModel" =>
              /\ current_model_config - 1 = ((hist.switch_from - 1) + hist.switches) % n
              /\ hist.switches = n => current_model_config = hist.switch_from
              /\ hist.switches \in 1..(n - 1) => current_model_config # hist.switch_from

\* three successive switches on three models, started from the second
\* model, are back at the second model
C11_Witness ==
    /\ hist.op = "LimSwitchModel"
    /\ Len(model_configs) = 3
    /\ hist.switches = 3
    /\ hist.switch_from = 2
    /\ current_model_config = 2

\* what every _switch_model call does to the windows: the window of the
\* model that is current after the call is empty and the windows of the
\* other models are as they were
EmptiesNewWindowOnly ==
    /\ model_request_counts'[model_configs[current_model_config'].name] = << >>
    /\ \A m \in ModelNames(model_configs) \ {model_configs[current_model_config'].name} :
          model_request_counts'[m] = model_request_counts[m]
    /\ openrouter_request_counts' = openrouter_request_counts

\* C23 (as stated): for every number of models, a single one included, each
\* _switch_model call empties the window of the model it makes current,
\* leaves the other windows alone and returns after a cooldown of 5 seconds.
C23_OriginalStep ==
    hist'.op = "LimSwitchModel" =>
        /\ EmptiesNewWindowOnly
        /\ now' = now + SwitchCooldown

C23_Original == [][C23_OriginalStep]_vars

\* C23 (amended): each _switch_model call empties the window of the model
\* it makes current and leaves the other windows alone; it returns after a
\* cooldown of 5 seconds when two or more models are configured, and at
\* once, with the single model current again, when only one is.
C23_Step ==
    hist'.op = "LimSwitchModel" =>
        /\ EmptiesNewWindowOnly
        /\ IF Len(model_configs) > 1
           THEN now' = now + SwitchCooldown
           ELSE now' = now /\ current_model_config' = current_model_config

C23_SwitchEffect == [][C23_Step]_vars

\* a switch on a single model, reached with the clock still at its first
\* value: no cooldown has been slept
C23_Witness ==
    /\ hist.op = "LimSwitchModel"
    /\ Len(model_configs) = 1
    /\ now = T0
    /\ model_request_counts["T1"] = << >>

----------------------------------------------------------------------------
(* Claims about generate_content_with_fallback (checked under Spec) *)

\* the configured limit of a model of either provider
RpmOf(m) ==
    IF m \in OpenRouterNames
    THEN OpenRouterRpm(m)
    ELSE model_configs[CHOOSE i \in 1..Len(model_configs) : model_configs[i].name = m].rpm

\* an error message with none of the substrings the Gemini loop retries on
IsFatalMessage(msg) ==
    msg \cap {"rate limit", "quota", "429", "504", "deadline", "api", "request"} = {}

NoError == [ caught |-> FALSE, msg |-> {} ]

\* the exception the except clause of the Gemini loop caught in the last
\* step: raised by the provider call, by reading the text of the response,
\* or by loading the image
HandledError(p) ==
    IF hist.op = "GeminiLoadFails"
    THEN [ caught |-> TRUE, msg |-> inv[p].image.msg ]
    ELSE IF hist.op = "GeminiResponse" /\ hist.call.kind \in {"error", "text_raises"}
    THEN [ caught |-> TRUE, msg |-> hist.call.msg ]
    ELSE NoError

\* every provider call in flight goes to a configured provider, key and model
CallsOnlyConfigured ==
    \A p \in Procs :
        /\ inv[p].pc = "gemini_call" =>
              /\ gemini_keys # << >>
              /\ inv[p].api_key \in Range(gemini_keys)
              /\ inv[p].call_model \in ModelNames(model_configs)
        /\ inv[p].pc = "openrouter_call" =>
              /\ inv[p].api_key \in Range(openrouter_keys)
              /\ inv[p].call_model \in OpenRouterNames
        /\ inv[p].pc = "done" /\ inv[p].result = "text" =>
              /\ hist.call.kind = "text"
              /\ hist.call.provider \in {"gemini", "openrouter"}

\* C1 (as stated): calls go to configured providers only, a returned text is
\* the text of the last provider call, and a generate call that got no text
\* from either provider ends with "All free LLM providers failed".
C1_Original ==
    /\ CallsOnlyConfigured
    /\ \A p \in Procs :
          inv[p].pc = "done" /\ hist.call.kind # "text" => inv[p].result = "all_failed"

\* C1 (amended): calls go to configured providers only, a returned text is
\* the text of the last provider call, and a generate call that got no text
\* ends with "All free LLM providers failed" unless a Gemini attempt raised
\* an error that is not retried (from the call, from reading the response
\* text, or from loading the image), which is then what the caller gets.
C1_NoSubstitution ==
    /\ CallsOnlyConfigured
    /\ \A p \in Procs :
          inv[p].pc = "done" /\ hist.call.kind # "text" =>
              \/ inv[p].result = "all_failed"
              \/ /\ inv[p].result = "raised"
                 /\ HandledError(p).caught
                 /\ IsFatalMessage(HandledError(p).msg)

\* both providers were tried and the call ended with the final exception
C1_Witness ==
    \E p \in Procs :
        /\ inv[p].pc = "done"
        /\ inv[p].result = "all_failed"
        /\ inv[p].prim_calls > 0
        /\ inv[p].sec_calls > 0

\* C2: a Gemini attempt that raises an error that is not a rate limit, a
\* timeout or an API error (in the call, in reading the response text, or
\* in loading the image) ends generate at once with that error, and no
\* OpenRouter call is made in that generate call.
C2_FatalAborts ==
    \A p \in Procs :
        /\ ( /\ HandledError(p).caught
             /\ IsFatalMessage(HandledError(p).msg) ) =>
                /\ inv[p].pc = "done"
                /\ inv[p].result = "raised"
                /\ inv[p].sec_calls = 0
        /\ inv[p].result = "raised" => inv[p].pc = "done" /\ inv[p].sec_calls = 0

\* a fatal error on the first of two attempts, with OpenRouter keys configured
C2_Witness ==
    \E p \in Procs :
        /\ inv[p].pc = "done"
        /\ inv[p].result = "raised"
        /\ openrouter_keys # << >>
        /\ inv[p].api_attempt + 1 < inv[p].max_retries

\* C3 (as stated): when every Gemini call so far raised a rate-limit error
\* (and Gemini keys are configured), an OpenRouter call is only made after
\* exactly max_retries Gemini calls, and a generate call that got no text
\* ends after exactly max_retries Gemini calls and at most 6 OpenRouter
\* calls with "All free LLM providers failed".
C3_Original ==
    \A p \in Procs :
        hist.only_rl /\ gemini_keys # << >> =>
            /\ inv[p].pc = "openrouter_call" => inv[p].prim_calls = inv[p].max_retries
            /\ inv[p].pc = "done" /\ inv[p].result # "text" =>
                  /\ inv[p].prim_calls = inv[p].max_retries
                  /\ inv[p].sec_calls <= max_total_attempts
                  /\ inv[p].result = "all_failed"

\* C3 (amended): when every Gemini call so far raised a rate-limit error
\* (and Gemini keys are configured), a generate call without image, or with
\* an image that loads, makes an OpenRouter call only after exactly
\* max_retries Gemini calls, and if it got no text it ends after exactly
\* max_retries Gemini calls and at most 6 OpenRouter calls with "All free
\* LLM providers failed".
C3_RateLimitedPrimary ==
    \A p \in Procs :
        hist.only_rl /\ gemini_keys # << >> /\ ~ImageLoadFails(inv[p].image) =>
            /\ inv[p].pc = "openrouter_call" => inv[p].prim_calls = inv[p].max_retries
            /\ inv[p].pc = "done" /\ inv[p].result # "text" =>
                  /\ inv[p].prim_calls = inv[p].max_retries
                  /\ inv[p].sec_calls <= max_total_attempts
                  /\ inv[p].result = "all_failed"

\* two rate-limited Gemini calls, then six OpenRouter calls, then the exception
C3_Witness ==
    \E p \in Procs :
        /\ hist.only_rl
        /\ inv[p].pc = "done"
        /\ inv[p].result = "all_failed"
        /\ inv[p].max_retries = 2
        /\ inv[p].prim_calls = 2
        /\ inv[p].sec_calls = max_total_attempts

\* no Gemini and no OpenRouter key is configured
NoCredentials == gemini_keys = << >> /\ openrouter_keys = << >>

\* generate makes no call and never waits
NoCallNoWait(p) ==
    /\ inv[p].pc \notin {"gemini_call", "openrouter_call", "sleep"}
    /\ inv[p].pc # "idle" => now = inv[p].t_start
    /\ inv[p].prim_calls = 0
    /\ inv[p].sec_calls = 0
    /\ inv[p].api_attempt = 0

\* C4 (as stated): without any credential generate fails at once, without a
\* call or a wait, with an error other than the one for exhausted providers.
C4_Original ==
    \A p \in Procs :
        NoCredentials =>
            /\ NoCallNoWait(p)
            /\ inv[p].pc = "done" => inv[p].result \notin {"text", "all_failed"}

\* C4 (amended): without any credential generate fails at once, without a
\* call or a wait, with the same "All free LLM providers failed" exception
\* it raises when the providers are exhausted.
C4_NoCredentials ==
    \A p \in Procs :
        NoCredentials =>
            /\ NoCallNoWait(p)
            /\ inv[p].pc = "done" => inv[p].result = "all_failed"

\* a generate call without credentials has ended
C4_Witness ==
    \E p \in Procs :
        NoCredentials /\ inv[p].pc = "done" /\ inv[p].max_retries > 0

\* C5: on no model are more requests answered within 60 seconds than the
\* model's requests-per-minute limit.
C5_RpmCeiling ==
    \A m \in DOMAIN hist.accepted : Len(hist.accepted[m]) <= RpmOf(m)

\* the model that follows model m in model_configs
FollowingModel(m) ==
    model_configs[NextModelIndex(model_configs,
        CHOOSE i \in 1..Len(model_configs) : model_configs[i].name = m)].name

\* C6: when a Gemini attempt finds the current model without capacity, the
\* current model becomes the one that follows it in model_configs.
C6_SwitchToFollowing ==
    hist.op = "GeminiNoCapacity" =>
        model_configs[current_model_config].name = FollowingModel(hist.checks[1].model)

\* C7 (as stated): a provider call adds one entry to the window of its model
\* exactly when it returned text, and no window gains anything otherwise.
C7_Original ==
    hist.call.kind # "none" =>
        hist.gained = IF hist.call.kind = "text" THEN {<<hist.call.model, 1>>} ELSE {}

\* C7 (amended): a provider call adds one entry to the window of its model
\* exactly when it returned a response: with text, empty, or one whose text
\* cannot be read; a call that raised or timed out adds nothing; no other
\* window gains an entry.
C7_RecordedWhenReturned ==
    hist.call.kind # "none" =>
        hist.gained = IF hist.call.kind \in {"text", "empty", "text_raises"}
                      THEN {<<hist.call.model, 1>>} ELSE {}

\* an empty Gemini response was recorded on the only model, whose window
\* the following switch then emptied again
C7_Witness ==
    /\ hist.call.provider = "gemini"
    /\ hist.call.kind = "empty"
    /\ hist.gained = {<<hist.call.model, 1>>}
    /\ Len(model_configs) = 1
    /\ model_request_counts[hist.call.model] = << >>

\* the window of a checked model before the check, and what a prune at the
\* time of the check keeps of it
WindowBefore(c) ==
    IF c.model \in OpenRouterNames
    THEN openrouter_request_counts[c.model]
    ELSE model_request_counts[c.model]

KeptOf(c) == SelectSeq(WindowBefore(c), LAMBDA t : c.at - t < WindowSeconds)

\* the check pruned the window and answered by comparing its length to the limit
PrunedAndCompared(c) ==
    /\ c.window = KeptOf(c)
    /\ c.ok <=> (Len(KeptOf(c)) < RpmOf(c.model))
    /\ ~c.ok <=> (Len(KeptOf(c)) >= RpmOf(c.model))

\* C10: each capacity check, on a Gemini or an OpenRouter model, leaves in
\* the window exactly the entries newer than 60 seconds and answers "no"
\* exactly when that many entries reach the model's limit (so a model is
\* never reported to have capacity while its window holds as many entries
\* as its limit).
C10_Step ==
    \A i \in 1..Len(hist'.checks) : PrunedAndCompared(hist'.checks[i])

C10_CapacityCheck == [][C10_Step]_vars

\* a check made a window length after construction that answered "no" on a
\* window holding as many entries as the limit of 2 allows
C10_Witness ==
    /\ hist.op = "LimCanMakeRequest"
    /\ HasManager(gemini_keys)
    /\ ~hist.checks[1].ok
    /\ hist.checks[1].len >= hist.checks[1].rpm
    /\ hist.checks[1].rpm = 2
    /\ hist.checks[1].at >= T0 + WindowSeconds - 1

\* every window of either provider but the window of model m is as it was
OtherWindowsUntouched(m) ==
    /\ \A n \in DOMAIN model_request_counts \ {m} :
          model_request_counts'[n] = model_request_counts[n]
    /\ \A n \in DOMAIN openrouter_request_counts \ {m} :
          openrouter_request_counts'[n] = openrouter_request_counts[n]

\* C28: right after the prune of a capacity check (_can_make_request on a
\* manager with keys, _can_make_openrouter_request) every entry t left in
\* the pruned window has now - t < 60, the entries left are those of the old
\* window that meet this, and the prune touches no other window: when the
\* check answers "yes" every other window is as it was, and when it answers
\* "no" on a Gemini model the only other change is the one _switch_model
\* then makes, emptying the window of the model it makes current.
C28_Step ==
    hist'.op \in {"LimCanMakeRequest", "LimCanMakeOpenRouterRequest"} =>
        LET c == hist'.checks[1]
        IN  ( c.model \in OpenRouterNames \/ HasManager(gemini_keys) ) =>
                /\ \A i \in 1..Len(c.window) : now - c.window[i] < WindowSeconds
                /\ c.window = KeptOf(c)
                /\ IF c.ok \/ c.model \in OpenRouterNames
                   THEN /\ c.window = (IF c.model \in OpenRouterNames
                                        THEN openrouter_request_counts'[c.model]
                                        ELSE model_request_counts'[c.model])
                        /\ OtherWindowsUntouched(c.model)
                   ELSE /\ model_request_counts'[model_configs[current_model_config'].name] = << >>
                        /\ current_model_config' # current_model_config =>
                              model_request_counts'[c.model] = c.window
                        /\ \A n \in DOMAIN model_request_counts \
                                  {c.model, model_configs[current_model_config'].name} :
                              model_request_counts'[n] = model_request_counts[n]
                        /\ openrouter_request_counts' = openrouter_request_counts

C28_PrunedWindowFresh == [][C28_Step]_vars

\* a check that kept an entry of its window while the window of another
\* model still holds an entry older than 60 seconds
C28_Witness ==
    /\ hist.op \in {"LimCanMakeRequest", "LimCanMakeOpenRouterRequest"}
    /\ HasManager(gemini_keys)
    /\ Len(hist.checks[1].window) > 0
    /\ \E n \in DOMAIN model_request_counts \ {hist.checks[1].model} :
          \E i \in 1..Len(model_request_counts[n]) :
              now - model_request_counts[n][i] >= WindowSeconds

\* the number of calls an invocation made on the OpenRouter model at position mi
CallsOn(p, mi) ==
    Cardinality({i \in 1..Len(inv[p].sec_models) : inv[p].sec_models[i] = mi})

\* the capacity checks of one pass over OPENROUTER_MODELS go down the list,
\* one model after the other, from the model at position `first` on
ChecksInOrderFrom(checks, first) ==
    \A i \in 1..Len(checks) :
        /\ first + i - 1 <= Len(OPENROUTER_MODELS)
        /\ checks[i].model = OPENROUTER_MODELS[first + i - 1].name

\* C12: a generate call makes at most 6 OpenRouter calls, at most 2 of them
\* on any one model, on models in the order of OPENROUTER_MODELS; its pass
\* over the models starts at the first model of the list, and the first call
\* is on the first model that has capacity. (A key iteration whose image
\* file cannot be read counts as an attempt and makes no call.)
C12_SecondaryBudget ==
    \A p \in Procs :
        /\ Len(inv[p].sec_models) = inv[p].sec_calls
        /\ inv[p].sec_calls <= inv[p].attempts
        /\ inv[p].attempts <= max_total_attempts
        /\ \A mi \in 1..Len(OPENROUTER_MODELS) : CallsOn(p, mi) <= MaxKeysPerModel
        /\ \A i \in 1..(Len(inv[p].sec_models) - 1) :
              inv[p].sec_models[i] <= inv[p].sec_models[i + 1]
        /\ hist.op = "Fallback" /\ openrouter_keys # << >> =>
              /\ Len(hist.checks) >= 1
              /\ ChecksInOrderFrom(hist.checks, 1)
              /\ IF FileReadFails(inv[p].image)
                 THEN inv[p].pc = "done" /\ Len(hist.checks) = Len(OPENROUTER_MODELS)
                 ELSE \A i \in 1..(Len(hist.checks) - 1) : ~hist.checks[i].ok
              /\ inv[p].pc = "openrouter_call" =>
                    /\ hist.checks[Len(hist.checks)].ok
                    /\ inv[p].sec_models = << Len(hist.checks) >>

\* six calls, two on each of the three models, with a third key left untried
C12_Witness ==
    \E p \in Procs :
        /\ inv[p].pc = "done"
        /\ inv[p].sec_models = <<1, 1, 2, 2, 3, 3>>
        /\ Len(openrouter_keys) = 3

\* C13: a generate call begins at most max_retries iterations of the Gemini
\* loop, one that only finds the model without capacity included, and so
\* makes at most max_retries Gemini calls; once max_retries iterations are
\* over without a returned text or a raised error, its next step is into the
\* OpenRouter part; and it only ends from a Gemini call that returned text or
\* raised, from an iteration in which loading the image raised, or from the
\* OpenRouter part.
C13_Step ==
    \A p \in Procs :
        /\ inv'[p].prim_iters <= inv'[p].max_retries
        /\ inv'[p].prim_calls <= inv'[p].prim_iters
        /\ inv'[p].api_attempt <= inv'[p].max_retries
        /\ ( /\ inv[p].pc = "gemini_loop"
             /\ inv[p].api_attempt >= inv[p].max_retries
             /\ inv'[p] # inv[p] ) => inv'[p].pc = "fallback"
        /\ ( inv'[p].pc = "done" /\ inv[p].pc # "done" ) =>
              \/ inv[p].pc = "gemini_call" /\ inv'[p].result \in {"text", "raised"}
              \/ /\ inv[p].pc = "gemini_loop"
                 /\ ImageLoadFails(inv[p].image)
                 /\ inv'[p].result = "raised"
              \/ inv[p].pc \in {"fallback", "openrouter_call"}

C13_PrimaryRetries == [][C13_Step]_vars

\* two iterations used up, the first without capacity and the second on an
\* empty response or a retried error, and the call has left the Gemini loop
\* for the OpenRouter part
C13_Witness ==
    \E p \in Procs :
        /\ inv[p].pc = "fallback"
        /\ inv[p].max_retries = 2
        /\ inv[p].prim_iters = 2
        /\ inv[p].prim_calls = 1

\* C14: a generate call makes OpenRouter calls only after its Gemini loop is
\* over, that is without Gemini keys or after max_retries iterations; while
\* it is in the Gemini loop it has made none; and a call that returns the
\* text of a Gemini response has made none at all.
C14_FallbackOnlyAfterPrimary ==
    \A p \in Procs :
        /\ ( inv[p].sec_calls > 0 \/ inv[p].pc \in {"fallback", "openrouter_call"} ) =>
              \/ gemini_keys = << >>
              \/ inv[p].prim_iters = inv[p].max_retries
        /\ inv[p].pc \in {"gemini_loop", "gemini_call", "sleep"} => inv[p].sec_calls = 0
        /\ ( /\ inv[p].pc = "done"
             /\ inv[p].result = "text"
             /\ hist.call.provider = "gemini" ) => inv[p].sec_calls = 0

\* an OpenRouter call in flight after two Gemini attempts that gave no text
C14_Witness ==
    \E p \in Procs :
        /\ inv[p].pc = "openrouter_call"
        /\ gemini_keys # << >>
        /\ inv[p].max_retries = 2
        /\ inv[p].prim_calls = 2

\* a Gemini attempt of p has just ended in a rate-limit error: raised by
\* the call, by reading the text of the response, or by loading the image
RateLimitedNow(p) ==
    \/ /\ hist'.op = "GeminiResponse"
       /\ inv[p].pc = "gemini_call"
       /\ hist'.call.kind \in {"error", "text_raises"}
       /\ ClassifyGemini(hist'.call.msg) = "rate_limit"
    \/ /\ hist'.op = "GeminiLoadFails"
       /\ inv[p].pc = "gemini_loop"
       /\ ClassifyGemini(inv[p].image.msg) = "rate_limit"

\* on a rate-limit error the key of the attempt is banned for
\* rate_limit_delay seconds, the current model stays, and the loop goes on
BansAndStays(p) ==
    RateLimitedNow(p) =>
        /\ api_key_manager'.key_rate_limited_until[inv'[p].api_key] = now' + rate_limit_delay
        /\ current_model_config' = current_model_config
        /\ inv'[p].pc = "sleep"

\* the iteration after a rate-limited attempt draws a key, on the same
\* model; only when the failed attempt had got a response, which was
\* recorded, the model can be found without capacity instead
RetriesSameModel(p) ==
    ( /\ inv[p].pc = "gemini_loop"
      /\ inv[p].last_reaction = "rate_limit"
      /\ inv[p].api_attempt < inv[p].max_retries
      /\ inv'[p] # inv[p] ) =>
          /\ hist'.op \in {"GeminiAcquire", "GeminiLoadFails", "GeminiNoCapacity"}
          /\ hist'.op = "GeminiNoCapacity" => hist.last_recorded
          /\ hist'.op # "GeminiNoCapacity" =>
                /\ inv'[p].call_model = inv[p].call_model
                /\ current_model_config' = current_model_config

\* p draws a key for the attempt that follows a rate-limited one
DrawsAfterBan(p) ==
    /\ inv[p].pc = "gemini_loop"
    /\ inv[p].last_reaction = "rate_limit"
    /\ hist'.op \in {"GeminiAcquire", "GeminiLoadFails"}

\* C15 (as stated): a rate-limited Gemini attempt bans its key and leaves
\* the current model alone, and the next attempt of the same generate call
\* runs on the same model with a key other than the one just banned.
C15_OriginalStep ==
    \A p \in Procs :
        /\ BansAndStays(p)
        /\ RetriesSameModel(p)
        /\ DrawsAfterBan(p) => inv'[p].api_key # inv[p].api_key

C15_Original == [][C15_OriginalStep]_vars

\* C15 (amended): a rate-limited Gemini attempt bans its key and leaves the
\* current model alone, and the next attempt of the same generate call runs
\* on the same model: with a key other than the one just banned when there
\* are two or more keys; with the same key, once get_next_key has waited for
\* the end of its ban, when it is the only key.
C15_Step ==
    \A p \in Procs :
        /\ BansAndStays(p)
        /\ RetriesSameModel(p)
        /\ DrawsAfterBan(p) =>
              IF Len(gemini_keys) > 1
              THEN inv'[p].api_key # inv[p].api_key
              ELSE /\ inv'[p].api_key = inv[p].api_key
                   /\ hist'.waits > 0
                   /\ now' >= api_key_manager.key_rate_limited_until[inv[p].api_key]

C15_RateLimitRetry == [][C15_Step]_vars

\* after a rate-limited attempt the next attempt is in flight on the same
\* model with the other key, the first key still being banned
C15_Witness ==
    \E p \in Procs :
        /\ hist.op = "GeminiAcquire"
        /\ inv[p].last_reaction = "rate_limit"
        /\ Len(gemini_keys) = 2
        /\ \E k \in Range(gemini_keys) :
              /\ k # inv[p].api_key
              /\ now < api_key_manager.key_rate_limited_until[k]

\* how the Gemini attempt that has just ended for p turned out: "text",
\* "empty" (the branch for an empty response), or the class of the error
\* the except clause caught, whether the call, the read of the response
\* text or the loading of the image raised it
EndedAs(p) ==
    IF hist'.op = "GeminiResponse" /\ inv[p].pc = "gemini_call"
    THEN (IF hist'.call.kind \in {"error", "text_raises"}
          THEN ClassifyGemini(hist'.call.msg)
          ELSE hist'.call.kind)
    ELSE IF hist'.op = "GeminiLoadFails" /\ inv[p].pc = "gemini_loop"
    THEN ClassifyGemini(inv[p].image.msg)
    ELSE "none"

\* C16: a Gemini attempt that ends in a timeout error, an API error or an
\* empty or invalid response (a response without text, or one whose text
\* cannot be read) moves the current model one position on (round robin),
\* bans no key, and sleeps 5 seconds (3 after an API error); after the
\* sleep the loop counts one more attempt and, if attempts remain, begins
\* the next iteration.
C16_Step ==
    \A p \in Procs :
        /\ ( \/ EndedAs(p) \in {"timeout", "api_error", "empty"}
             \/ /\ hist'.op = "GeminiResponse"
                /\ inv[p].pc = "gemini_call"
                /\ hist'.call.kind = "text_raises" ) =>
              /\ current_model_config' = (current_model_config % Len(model_configs)) + 1
              /\ api_key_manager'.key_rate_limited_until =
                    api_key_manager.key_rate_limited_until
              /\ hist'.op = "GeminiResponse" => api_key_manager' = api_key_manager
              /\ inv'[p].pc = "sleep"
              /\ inv'[p].wake_at =
                    now' + (IF EndedAs(p) = "api_error" THEN ApiErrorBackoff ELSE Backoff)
        /\ ( inv[p].pc = "sleep" /\ inv'[p] # inv[p] ) =>
              /\ inv'[p].pc = "gemini_loop"
              /\ inv'[p].api_attempt = inv[p].api_attempt + 1
              /\ now' >= inv[p].wake_at
        /\ ( /\ inv[p].pc = "gemini_loop"
             /\ inv[p].last_reaction \in {"timeout", "api_error", "empty"}
             /\ inv[p].api_attempt < inv[p].max_retries
             /\ inv'[p] # inv[p] ) =>
                hist'.op \in {"GeminiAcquire", "GeminiLoadFails", "GeminiNoCapacity"}

C16_TransientSwitchesModel == [][C16_Step]_vars

\* how the OpenRouter attempt that has just ended for p turned out
SecondaryEndedAs(p) ==
    IF hist'.op = "OpenRouterResponse" /\ inv[p].pc = "openrouter_call"
    THEN (IF hist'.call.kind = "error" THEN ClassifyOpenRouter(hist'.call.msg)
          ELSE hist'.call.kind)
    ELSE "none"

\* the limit of two keys per model and the limit of six attempts leave room
\* for one more attempt on the model of the attempt that has just ended
RoomOnModel(p) ==
    /\ inv[p].keys_tried < MaxKeysPerModel
    /\ inv[p].attempts < max_total_attempts

\* the next attempt of p is in flight on the same model with the next key of
\* openrouter_keys
NextKeySameModel(p) ==
    /\ inv'[p].pc = "openrouter_call"
    /\ inv'[p].mi = inv[p].mi
    /\ inv'[p].ki = inv[p].ki + 1
    /\ inv'[p].call_model = inv[p].call_model
    /\ inv'[p].api_key = openrouter_keys[inv[p].ki + 1]

\* p is done with the model of the attempt that has just ended: a further
\* attempt, if there is one, is on a later model of OPENROUTER_MODELS
LeavesModel(p) ==
    inv'[p].pc = "openrouter_call" => inv'[p].mi > inv[p].mi

\* no key is used twice on the same OpenRouter model within one generate call
NoKeyTwiceOnModel(p) ==
    \A i, j \in 1..Len(inv'[p].sec_keys) :
        ( i < j /\ inv'[p].sec_models[i] = inv'[p].sec_models[j] ) =>
            inv'[p].sec_keys[i] # inv'[p].sec_keys[j]

\* C17 (as stated): after an OpenRouter attempt that timed out, the next
\* attempt is on the same model with the next key whenever the two limits
\* leave room for one, and no key is tried twice on a model.
C17_OriginalStep ==
    \A p \in Procs :
        /\ NoKeyTwiceOnModel(p)
        /\ ( SecondaryEndedAs(p) = "timeout" /\ RoomOnModel(p) ) => NextKeySameModel(p)

C17_Original == [][C17_OriginalStep]_vars

\* C17 (amended): after an OpenRouter attempt that timed out, the next
\* attempt is on the same model with the next key when the list has a
\* further key and the two limits leave room for one; otherwise the call is
\* done with that model; and no key is tried twice on a model.
C17_Step ==
    \A p \in Procs :
        /\ NoKeyTwiceOnModel(p)
        /\ SecondaryEndedAs(p) = "timeout" =>
              IF RoomOnModel(p) /\ inv[p].ki < Len(openrouter_keys)
              THEN NextKeySameModel(p)
              ELSE LeavesModel(p)

C17_TimeoutNextKey == [][C17_Step]_vars

\* the first key timed out on the first model and the second key is now
\* tried on that model
C17_Witness ==
    \E p \in Procs :
        /\ hist.op = "OpenRouterResponse"
        /\ hist.call.kind = "timeout"
        /\ hist.call.key = "K1"
        /\ inv[p].pc = "openrouter_call"
        /\ inv[p].api_key = "K2"
        /\ inv[p].call_model = hist.call.model
        /\ inv[p].sec_models = <<1, 1>>

\* an error message that signals rate or quota exhaustion, as the Gemini
\* loop reads it ("rate limit", "quota" or "429")
RateLimitSignal(msg) == "rate limit" \in msg \/ "quota" \in msg \/ "429" \in msg

\* the OpenRouter attempt that has just ended for p raised an error
SecondaryRaised(p) ==
    /\ hist'.op = "OpenRouterResponse"
    /\ inv[p].pc = "openrouter_call"
    /\ hist'.call.kind = "error"

\* C18: after an OpenRouter attempt that raised a rate-limit error no
\* further key is tried on its model in that generate call, a further
\* attempt being on a later model; after any other raised error the next key
\* is tried on the same model (when the list has a further key and the two
\* limits leave room for an attempt).
C18_Step ==
    \A p \in Procs :
        SecondaryRaised(p) =>
            IF RateLimitSignal(hist'.call.msg)
            THEN LeavesModel(p)
            ELSE ( RoomOnModel(p) /\ inv[p].ki < Len(openrouter_keys) ) =>
                    NextKeySameModel(p)

C18_RateLimitNextModel == [][C18_Step]_vars

\* position of an OpenRouter model in OPENROUTER_MODELS
OpenRouterPosition(model_name) ==
    CHOOSE i \in 1..Len(OPENROUTER_MODELS) : OPENROUTER_MODELS[i].name = model_name

\* the capacity checks of the step just taken that answered "no"
SkippedChecks == {i \in 1..Len(hist'.checks) : ~hist'.checks[i].ok}

\* the attempts a pass over the models uses up when the image file cannot
\* be read: one per model with capacity if the error reads as a rate limit,
\* else one per key tried on each such model
LoadAttempts(image, checks) ==
    (IF ClassifyOpenRouter(image.msg) = "rate_limit" THEN 1
     ELSE IF Len(openrouter_keys) < MaxKeysPerModel THEN Len(openrouter_keys)
     ELSE MaxKeysPerModel)
       * Cardinality({i \in 1..Len(checks) : checks[i].ok})

\* C24: an OpenRouter model found without capacity when the model loop
\* comes to it is passed over: the generate call makes no provider call on
\* it, the skip uses up none of the 6 attempts (the attempt count goes up by
\* one with each key iteration on a model with capacity and never
\* otherwise: it equals the number of calls made, or, when the image file
\* cannot be read, the number of iterations that ended in that error), and the
\* model's window gains no entry: it is the window it was, less the entries
\* older than 60 seconds.
C24_Step ==
    \A p \in Procs :
        /\ inv'[p].pc \in {"fallback", "openrouter_call"} =>
              inv'[p].attempts = inv'[p].sec_calls
        /\ hist'.op \in {"Fallback", "OpenRouterResponse"} /\ inv'[p] # inv[p] =>
              /\ inv'[p].sec_calls - inv[p].sec_calls =
                    (IF inv'[p].pc = "openrouter_call" THEN 1 ELSE 0)
              /\ IF FileReadFails(inv[p].image) /\ openrouter_keys # << >>
                 THEN /\ inv'[p].sec_calls = 0
                      /\ inv'[p].attempts = LoadAttempts(inv[p].image, hist'.checks)
                 ELSE inv'[p].attempts = inv'[p].sec_calls
              /\ \A i \in SkippedChecks :
                    LET m == hist'.checks[i].model
                    IN  /\ OpenRouterPosition(m) \notin Range(inv'[p].sec_models)
                        /\ inv'[p].pc = "openrouter_call" => inv'[p].call_model # m
                        /\ openrouter_request_counts'[m] =
                              Prune(openrouter_request_counts[m], now')
                        /\ Len(openrouter_request_counts'[m]) <=
                              Len(openrouter_request_counts[m])

C24_SkipWithoutCapacity == [][C24_Step]_vars

\* after one call on the first model the second model is found full and
\* passed over, and the second call of the generate call is on the third
C24_Witness ==
    \E p \in Procs :
        /\ hist.op = "OpenRouterResponse"
        /\ inv[p].pc = "openrouter_call"
        /\ inv[p].sec_models = <<1, 3>>
        /\ inv[p].attempts = 2
        /\ \E i \in 1..Len(hist.checks) :
              /\ hist.checks[i].model = OPENROUTER_MODELS[2].name
              /\ ~hist.checks[i].ok
        /\ Len(openrouter_request_counts[OPENROUTER_MODELS[2].name]) =
              OPENROUTER_MODELS[2].rpm

\* C25: in every state of sequential generate calls no request window, of
\* a Gemini or of an OpenRouter model, holds more entries than the model's
\* requests-per-minute limit.
C25_WindowWithinCeiling ==
    /\ \A m \in DOMAIN model_request_counts :
          Len(model_request_counts[m]) <= RpmOf(m)
    /\ \A m \in DOMAIN openrouter_request_counts :
          Len(openrouter_request_counts[m]) <= RpmOf(m)

\* the step is the get_next_key call of a Gemini attempt of p, followed in
\* the same step by mark_rate_limited on the key drawn when loading the
\* image raised an error that reads as a rate limit
AcquiresKey(p) ==
    LET r == GetNextKey(api_key_manager, now)
    IN  /\ inv[p].pc = "gemini_loop"
        /\ \/ /\ hist'.op = "GeminiAcquire"
              /\ api_key_manager' = r.akm
           \/ /\ hist'.op = "GeminiLoadFails"
              /\ api_key_manager' = IF RateLimitedNow(p)
                                     THEN MarkRateLimited(r.akm, r.key, r.t)
                                     ELSE r.akm

\* the step is the mark_rate_limited call after a rate-limit error of p
MarksKey(p) ==
    /\ RateLimitedNow(p)
    /\ hist'.op = "GeminiResponse"
    /\ api_key_manager' = MarkRateLimited(api_key_manager, inv[p].api_key, now')

\* C29: over any sequence of generate calls the state of the Gemini keys
\* changes only in get_next_key and in mark_rate_limited, the lists of keys
\* of both providers never change, and no key's usage count, last use or
\* end of ban ever goes down.
C29_Step ==
    /\ api_key_manager' # api_key_manager =>
          \E p \in Procs : AcquiresKey(p) \/ MarksKey(p)
    /\ api_key_manager'.api_keys = api_key_manager.api_keys
    /\ gemini_keys' = gemini_keys
    /\ openrouter_keys' = openrouter_keys
    /\ DOMAIN api_key_manager'.key_usage_count = Range(gemini_keys)
    /\ \A k \in Range(gemini_keys) :
          /\ api_key_manager'.key_usage_count[k] >= api_key_manager.key_usage_count[k]
          /\ api_key_manager'.key_last_used[k] >= api_key_manager.key_last_used[k]
          /\ api_key_manager'.key_rate_limited_until[k] >=
                api_key_manager.key_rate_limited_until[k]

C29_KeyStateMonotone == [][C29_Step]_vars

\* a key drawn for the third time, in a second generate call, has just been
\* banned again after a rate-limit error
C29_Witness ==
    /\ hist.op = "GeminiResponse"
    /\ hist.call.kind = "error"
    /\ ClassifyGemini(hist.call.msg) = "rate_limit"
    /\ hist.ngen = 2
    /\ api_key_manager.key_usage_count[hist.call.key] >= 3
    /\ api_key_manager.key_rate_limited_until[hist.call.key] = now + rate_limit_delay

----------------------------------------------------------------------------
(* Claims about concurrent generate calls (checked under SpecConc) *)

\* C19: no wait of one coroutine holds up another: a coroutine that sleeps
\* in asyncio.sleep is resumed when its deadline comes, so the clock never
\* passes the deadline of a coroutine that is still asleep, whatever
\* cooldown or key wait the other coroutine goes through meanwhile.
C19_WaitsSuspend ==
    \A q \in ConcProcs : inv[q].pc = "sleep" => now <= inv[q].wake_at

\* the Gemini call of coroutine p has just been answered with text
AcceptedNow(p) ==
    /\ hist'.op = "GeminiResponse"
    /\ inv[p].pc = "gemini_call"
    /\ inv'[p].pc = "done"
    /\ hist'.call.kind = "text"

\* C26: with two generate coroutines on one manager, a Gemini response
\* that is accepted is recorded in the window of the model that served the
\* call, the model the client was built for, even if the other coroutine
\* has switched the current model while the call was in flight: that
\* window, and no other, gains one entry.
C26_Step ==
    \A p \in ConcProcs :
        AcceptedNow(p) =>
            /\ hist'.gained = { <<inv[p].call_model, 1>> }
            /\ Len(model_request_counts'[inv[p].call_model]) =
                  Len(model_request_counts[inv[p].call_model]) + 1

C26_RecordedOnServingModel == [][C26_Step]_vars

----------------------------------------------------------------------------
(* Claims about the constructor (checked under Spec)                        *)

\* the stripped, non-blank credentials of the list passed to the constructor
PassedKeys(source) == StripKeys(source.passed)

\* C20: whatever the environment variables hold, the pools are the passed
\* lists: the key manager exists exactly when the passed Gemini list has a
\* non-blank credential, and gemini_keys and openrouter_keys are the passed
\* credentials, stripped and without blanks
C20_PassedListsDeterminePools ==
    /\ HasManager(gemini_keys) <=> PassedKeys(hist.built_from.gemini) # << >>
    /\ gemini_keys = PassedKeys(hist.built_from.gemini)
    /\ api_key_manager.api_keys = PassedKeys(hist.built_from.gemini)
    /\ openrouter_keys = PassedKeys(hist.built_from.openrouter)
============================================================================
